---- MODULE Spec2Model ----
(***************************************************************************)
(* A model of ActiveDirectoryHandler (src/unnamed/part_001): the paged     *)
(* search driver rawSearch with its event queue and back-pressure, the     *)
(* connection life cycle of getObjects, the per-entry normalisation        *)
(* (process), the throttled schema bootstrap (initialize), the reassembly  *)
(* of ranged attributes (completeValueRange) and the rewriter of the       *)
(* transitive-membership attributes.                                       *)
(*                                                                         *)
(* JavaScript runs one task at a time: a transport event handler runs to   *)
(* completion, and a generator runs from one suspension point (yield,      *)
(* await) to the next without any handler running in between.  The model   *)
(* keeps the generator's loop iterations as separate steps, so the states  *)
(* inside one run are visible, and allows no handler while it runs.        *)
(***************************************************************************)
EXTENDS Integers, Sequences, FiniteSets, TLC

VARIABLES
  \* ---- rawSearch (part_001:395-505) ----
  buffer,           \* const buffer = []: the queued transport events
  should_pause,     \* let should_pause
  buffer_callback,  \* let buffer_callback: TRUE while a resolve function is stored
  resume_callback,  \* let resume_callback: 0 for null, else the page event whose callback is stored
  pc,               \* the position of the rawSearch generator
  \* ---- the LDAP transport (the emitter returned by connection.search) ----
  transport,        \* "paged": honours pagePause; "free": emits at will
  awaiting,         \* paged: the page whose resume callback the transport waits for (0: none)
  tEnded,           \* an end or error event was emitted
  tLast,            \* paged: the last page's page event was emitted
  inPage,           \* paged: entries and referrals emitted in the current page
  nEvents,          \* events emitted so far
  nEntries,         \* searchEntry events emitted so far
  cbInvoked,        \* the pages whose resume callback the driver has invoked
  \* ---- what the consumer of rawSearch has seen ----
  yielded,          \* the entries yielded, in order
  lastDeq,          \* the event dequeued last (NoEvent before the first)
  withheld,         \* the pages whose resume callback was ever stored in resume_callback
  assertFailed,     \* assert(!resume_callback) has thrown
  overflowed,       \* depth exceeded the pause mark at an enqueue and bufferctl has not
                    \* run below the resume mark since
  \* ---- getObjects and newConnection (part_001:236-393) ----
  go_pc,                       \* the position of the getObjects generator
  connection_is_external,      \* const connection_is_external = Boolean(connection)
  client,                      \* the LDAP client behind the connection in use
  bound,                       \* newConnection has returned a connection to this call
  bindCalls,                   \* calls of bind made by newConnection
  failUnbinds,                 \* calls of unbind made by newConnection after a failed bind
  endCalls,                    \* calls of connection.end() made by getObjects
  completion,                  \* how the try block was left: "normal", "throw", "return"
  where_valid,                 \* input: ldapfilter accepts the where expression
  clientSideTransitiveSearch,  \* input: the search option of that name
  lookups,                     \* transitive group lookups in flight for the rewrite
  nYielded,                    \* records yielded by this call
  searchesDone,                \* searches the caller has finished on its own connection
  completions,                 \* how the caller's finished searches ended
  \* ---- the handler's state (part_001:83-128) ----
  initialized,                 \* this.initialized
  dictSingleValued,            \* this.dictSingleValued: "single", "multi", or "none" for no key
  booleanAttributes,           \* this.booleanAttributes
  extractionFormatters,        \* this.extractionFormatters: the decoder of each name, or "none"
  \* ---- the directory ----
  schema,                      \* the attributeSchema rows the schema search yields, in order
  \* ---- completeValueRange (part_001:526-578) ----
  rc_pc,                       \* "idle", "requested", "done" or "failed"
  rc_N,                        \* input: the number of values of the attribute in the directory
  initValues,                  \* the parameter of that name in the current round
  initRawValues,               \* the parameter of that name in the current round
  offset,                      \* const offset of the current round
  rounds,                      \* rounds started
  response,                    \* the entry the subsearch of the last round returned
  data_values,                 \* data.values as process receives it
  data_rawValues,              \* data.rawValues as process receives it
  \* ---- the transitive-membership rewriter (part_001:589-624) ----
  member,                      \* the directory: the member attribute of every group
  baseGroups,                  \* the directory: the groups under clientSideTransitiveSearchBaseDN
  where,                       \* input: the filter expression of the search
  tl_pc,                       \* "idle", "called", "lookup", "rewritten" or "done"
  tl_attribute,                \* the lookup's parameter attribute
  toLookup,                    \* the lookup's frontier
  ret,                         \* the lookup's accumulated set
  searches,                    \* the oneof filter of every search the lookup issued, in order
  filterExpression,            \* what getObjects hands to rawSearch
  found,                       \* the DNs of the entries the search yields
  \* ---- getObjects: the select option (part_001:237-247, 361) ----
  select_all,                  \* const select_all = select === "*"
  selectList,                  \* input: the select option when it is a list
  sl_pc,                       \* "idle", "called", "validated", "rejected" or "searching"
  attributes,                  \* const attributes, as handed to rawSearch
  \* ---- getOneObject (part_001:507-515) ----
  oo_stream,                   \* input: the records the getObjects stream holds, in order
  oo_ending,                   \* input: how the stream ends after them: "end" or "throw"
  oo_pc,                       \* "idle", "running", "returned" or "failed"
  oo_consumed,                 \* the records taken from the stream
  searchresult,                \* const searchresult
  oo_value,                    \* what getOneObject returned
  oo_closed,                   \* the loop has closed the iterator before its end
  \* ---- ldapfilter (part_002:67-130) ----
  fl_expr,                     \* input: the filter expression i
  fl_b,                        \* input: the set b of boolean attribute names
  fl_pc,                       \* "idle", "called", "returned" or "thrown"
  fl_out,                      \* the string returned
  \* ---- one entry through getObjects' process (part_001:251-359) ----
  select,                      \* input: the select list, as a set
  waitForInitialization,       \* input: the search option of that name
  pr_pc,                       \* "called", "streaming", "yielded" or "failed"
  pr_entry,                    \* the entry handed to process
  pr_ret,                      \* the record process returned
  \* ---- the throttled initialize (part_001:130, 133-234) ----
  now,                         \* the clock, in milliseconds
  lastCallTime,                \* the throttle's lastCallTime (-1: undefined)
  lastInvokeTime,              \* the throttle's lastInvokeTime
  result,                      \* the throttle's result: the attempt invoked last (0: undefined)
  attempts,                    \* the promise of each bootstrap attempt started
  callers                      \* the getObjects calls waiting for the bootstrap

rsVars == <<buffer, should_pause, buffer_callback, resume_callback, pc,
            transport, awaiting, tEnded, tLast, inPage, nEvents, nEntries,
            cbInvoked, yielded, lastDeq, withheld, assertFailed, overflowed>>

goVars == <<go_pc, connection_is_external, client, bound, bindCalls, failUnbinds, endCalls,
            completion, where_valid, clientSideTransitiveSearch, lookups, nYielded,
            searchesDone, completions>>

hVars == <<initialized, dictSingleValued, booleanAttributes, extractionFormatters>>

dirVars == <<schema>>

rcVars == <<rc_pc, rc_N, initValues, initRawValues, offset, rounds, response,
            data_values, data_rawValues>>

tlVars == <<member, baseGroups, where, tl_pc, tl_attribute, toLookup, ret, searches,
            filterExpression, found>>

slVars == <<select_all, selectList, sl_pc, attributes>>

ooVars == <<oo_stream, oo_ending, oo_pc, oo_consumed, searchresult, oo_value, oo_closed>>

flVars == <<fl_expr, fl_b, fl_pc, fl_out>>

prVars == <<select, waitForInitialization, pr_pc, pr_entry, pr_ret>>

inVars == <<now, lastCallTime, lastInvokeTime, result, attempts, callers>>

vars == <<rsVars, goVars, hVars, prVars, inVars, dirVars, rcVars, tlVars, slVars, ooVars, flVars>>

\* What the steps of one part of the handler leave alone.
notRs == <<goVars, hVars, prVars, inVars, dirVars, rcVars, tlVars, slVars, ooVars, flVars>>
notGo == <<rsVars, hVars, prVars, inVars, dirVars, rcVars, tlVars, slVars, ooVars, flVars>>
notPr == <<rsVars, goVars, inVars, dirVars, rcVars, tlVars, slVars, ooVars, flVars>>
notIn == <<rsVars, goVars, prVars, dirVars, rcVars, tlVars, slVars, ooVars, flVars>>
notRc == <<rsVars, goVars, hVars, prVars, inVars, dirVars, tlVars, slVars, ooVars, flVars>>
notTl == <<rsVars, goVars, hVars, prVars, inVars, dirVars, rcVars, slVars, ooVars, flVars>>
notSl == <<rsVars, goVars, hVars, prVars, inVars, dirVars, rcVars, tlVars, ooVars, flVars>>
notOo == <<rsVars, goVars, hVars, prVars, inVars, dirVars, rcVars, tlVars, slVars, flVars>>
notFl == <<rsVars, goVars, hVars, prVars, inVars, dirVars, rcVars, tlVars, slVars, ooVars>>

----------------------------------------------------------------------------
(* Bounds of the model *)

\* The pause and resume marks of the queue.  The source sets 2000 and 200
\* (part_001:14-15); the model keeps the comparisons of the source and a
\* smaller band, so that TLC can fill the queue past the pause mark.
buffer_pause_at_length == 3
buffer_resume_at_length == 2
\* Events the transport emits during one search.
MaxEvents == 6
\* The largest page of the paged transport.
MaxPageSize == 3
\* Records one getObjects call yields.
MaxYield == 2
\* Virtual-attribute nodes of one where expression.
MaxVirtual == 2
\* Further searches a caller runs on the connection it supplied.
MaxSearches == 2
\* Values of one attribute in an entry.
MaxValues == 2
\* Calls of getObjects and of initialize that reach the throttle.
MaxCalls == 2
\* Bootstrap attempts started.
MaxAttempts == 2
\* The largest chunk the server returns for a ranged request.
MaxChunk == 12
\* The values of the ranged attribute in the directory.
MaxN == 16
\* The clock advances in steps of TickMs, MaxTicks times.
TickMs == 5000
MaxTicks == 3

\* const initialize_throttle_delay = 10000 (part_001:13)
initialize_throttle_delay == 10000

\* const OVERLAP = 10 (part_001:529)
OVERLAP == 10

----------------------------------------------------------------------------
(* Events *)

\* seq numbers the events in the order the transport emits them; n is the
\* ordinal of an entry among the entries; a page's callback goes by the seq
\* of its page event.
NoEvent == [op |-> "none", seq |-> 0, n |-> 0, callback |-> FALSE, status |-> 0, errorMessage |-> ""]
EntryEvent(seq, n) == [NoEvent EXCEPT !.op = "entry", !.seq = seq, !.n = n]
PageEvent(seq, cb) == [NoEvent EXCEPT !.op = "page", !.seq = seq, !.callback = cb]
ReferralEvent(seq) == [NoEvent EXCEPT !.op = "referral", !.seq = seq]
ErrEvent(seq) == [NoEvent EXCEPT !.op = "err", !.seq = seq]
DoneEvent(seq, status, msg) ==
  [NoEvent EXCEPT !.op = "done", !.seq = seq, !.status = status, !.errorMessage = msg]

Statuses == {0, 1}
ErrorMessages == {"", "e"}

----------------------------------------------------------------------------
(* The driver's buffer control *)

Driver == [buffer |-> buffer, should_pause |-> should_pause,
           buffer_callback |-> buffer_callback, resume_callback |-> resume_callback,
           cbInvoked |-> cbInvoked]

SetDriver(d) ==
  /\ buffer' = d.buffer
  /\ should_pause' = d.should_pause
  /\ buffer_callback' = d.buffer_callback
  /\ resume_callback' = d.resume_callback
  /\ cbInvoked' = d.cbInvoked

\* bufferctl invokes the stored callback and keeps it stored.
bufferctl_KeepsCallback(d) ==
  LET d1 == IF Len(d.buffer) > buffer_pause_at_length /\ ~d.should_pause
            THEN [d EXCEPT !.should_pause = TRUE] ELSE d
      d2 == IF Len(d1.buffer) < buffer_resume_at_length /\ d1.should_pause
            THEN [d1 EXCEPT !.should_pause = FALSE,
                            !.cbInvoked = IF d1.resume_callback # 0
                                          THEN @ \cup {d1.resume_callback} ELSE @]
            ELSE d1
  IN IF Len(d2.buffer) > 0 /\ d2.buffer_callback
     THEN [d2 EXCEPT !.buffer_callback = FALSE] ELSE d2

\* bufferctl never sets should_pause.
bufferctl_NeverPauses(d) ==
  LET d2 == IF Len(d.buffer) < buffer_resume_at_length /\ d.should_pause
            THEN [d EXCEPT !.should_pause = FALSE,
                           !.cbInvoked = IF d.resume_callback # 0
                                         THEN @ \cup {d.resume_callback} ELSE @,
                           !.resume_callback = 0]
            ELSE d
  IN IF Len(d2.buffer) > 0 /\ d2.buffer_callback
     THEN [d2 EXCEPT !.buffer_callback = FALSE] ELSE d2

\* part_001:409-428.  Invoking resume_callback() is recorded in cbInvoked;
\* buffer_callback(true) resolves the promise the generator awaits.
bufferctl(d) ==
  LET d1 == IF Len(d.buffer) > buffer_pause_at_length /\ ~d.should_pause
            THEN [d EXCEPT !.should_pause = TRUE] ELSE d
      d2 == IF Len(d1.buffer) < buffer_resume_at_length /\ d1.should_pause
            THEN [d1 EXCEPT !.should_pause = FALSE,
                            !.cbInvoked = IF d1.resume_callback # 0
                                          THEN @ \cup {d1.resume_callback} ELSE @,
                            !.resume_callback = 0]
            ELSE d1
  IN IF Len(d2.buffer) > 0 /\ d2.buffer_callback
     THEN [d2 EXCEPT !.buffer_callback = FALSE] ELSE d2

\* The ghost of the pause condition, kept from the depth alone.
OverflowedAfter(len, was) ==
  IF len > buffer_pause_at_length THEN TRUE
  ELSE IF len < buffer_resume_at_length THEN FALSE
  ELSE was

----------------------------------------------------------------------------
(* The transport *)

\* An event handler runs only while the generator is suspended, and only
\* once rawSearch has attached the handlers.
HandlersMayRun == pc \in {"yielded", "waiting", "done", "failed", "returned"}

\* The paged transport sends a page (its entries, its page event, the end
\* event after the last page) only when no resume callback is outstanding,
\* and nothing after its end or error event.  The free transport does not
\* wait for the callback, and may still deliver entries after its end or
\* error event.
MaySend(late) ==
  /\ nEvents < MaxEvents
  /\ HandlersMayRun
  /\ \/ transport = "free" /\ (late \/ ~tEnded)
     \/ /\ transport = "paged"
        /\ ~tEnded
        /\ awaiting = 0 \/ awaiting \in cbInvoked

\* The page handler calls the resume callback as soon as the page event arrives.
Push_ResumesAtOnce(item) ==
  /\ SetDriver(LET d == bufferctl([Driver EXCEPT !.buffer = Append(@, item)])
               IN IF item.op = "page" /\ item.callback
                  THEN [d EXCEPT !.cbInvoked = @ \cup {item.seq}] ELSE d)
  /\ overflowed' = OverflowedAfter(Len(buffer) + 1, overflowed)
  /\ nEvents' = nEvents + 1
  /\ UNCHANGED <<pc, transport, yielded, lastDeq, withheld, assertFailed>>

\* An error event goes to the head of the queue.
Push_ErrorsFirst(item) ==
  /\ SetDriver(bufferctl([Driver EXCEPT !.buffer = IF item.op = "err" THEN <<item>> \o @
                                                   ELSE Append(@, item)]))
  /\ overflowed' = OverflowedAfter(Len(buffer) + 1, overflowed)
  /\ nEvents' = nEvents + 1
  /\ UNCHANGED <<pc, transport, yielded, lastDeq, withheld, assertFailed>>

\* emitter.on(<event>): buffer.push(item); bufferctl()   (part_001:429-451)
Push(item) ==
  /\ SetDriver(bufferctl([Driver EXCEPT !.buffer = Append(@, item)]))
  /\ overflowed' = OverflowedAfter(Len(buffer) + 1, overflowed)
  /\ nEvents' = nEvents + 1
  /\ UNCHANGED <<pc, transport, yielded, lastDeq, withheld, assertFailed>>

\* The paged transport's own bookkeeping; the free transport only ends.
Paged(a, e, l, ip) ==
  IF transport = "paged"
  THEN awaiting' = a /\ tEnded' = e /\ tLast' = l /\ inPage' = ip
  ELSE tEnded' = e /\ UNCHANGED <<awaiting, tLast, inPage>>

EmitEntry ==
  /\ UNCHANGED notRs
  /\ MaySend(TRUE)
  /\ transport = "paged" => ~tLast /\ inPage < MaxPageSize
  /\ Push(EntryEvent(nEvents + 1, nEntries + 1))
  /\ nEntries' = nEntries + 1
  /\ Paged(0, tEnded, tLast, inPage + 1)

EmitReferral ==
  /\ UNCHANGED notRs
  /\ MaySend(FALSE)
  /\ transport = "paged" => ~tLast /\ inPage < MaxPageSize
  /\ Push(ReferralEvent(nEvents + 1))
  /\ Paged(0, tEnded, tLast, inPage + 1)
  /\ UNCHANGED nEntries

\* A page event with its resume callback: more pages follow.
EmitPage ==
  /\ UNCHANGED notRs
  /\ MaySend(FALSE)
  /\ transport = "paged" => ~tLast
  /\ Push(PageEvent(nEvents + 1, TRUE))
  /\ Paged(nEvents + 1, tEnded, tLast, 0)
  /\ UNCHANGED nEntries

\* The page event of the last page carries no callback; the end event follows.
EmitLastPage ==
  /\ UNCHANGED notRs
  /\ MaySend(FALSE)
  /\ transport = "paged" => ~tLast
  /\ Push(PageEvent(nEvents + 1, FALSE))
  /\ Paged(0, tEnded, TRUE, inPage)
  /\ UNCHANGED nEntries

EmitEnd ==
  /\ UNCHANGED notRs
  /\ MaySend(FALSE)
  /\ transport = "paged" => tLast
  /\ \E status \in Statuses, msg \in ErrorMessages : Push(DoneEvent(nEvents + 1, status, msg))
  /\ Paged(0, TRUE, tLast, inPage)
  /\ UNCHANGED nEntries

\* An error takes the place of a response: the paged transport has none
\* outstanding while it waits for a resume callback.
EmitError ==
  /\ UNCHANGED notRs
  /\ MaySend(FALSE)
  /\ Push(ErrEvent(nEvents + 1))
  /\ Paged(0, TRUE, tLast, inPage)
  /\ UNCHANGED nEntries

----------------------------------------------------------------------------
(* The rawSearch generator *)

\* The first next(): connection.search, the handlers are attached
\* (part_001:396-451) and the loop is entered.
RawSearchStart ==
  /\ UNCHANGED notRs
  /\ pc = "idle"
  /\ pc' = "loop"
  /\ UNCHANGED <<buffer, should_pause, buffer_callback, resume_callback, cbInvoked,
                 transport, awaiting, tEnded, tLast, inPage, nEvents, nEntries,
                 yielded, lastDeq, withheld, overflowed, assertFailed>>

\* case "page" (part_001:473-486)
PageCase(item) ==
  IF resume_callback # 0
  THEN \* assert(!resume_callback) throws
       /\ pc' = "failed" /\ assertFailed' = TRUE
       /\ UNCHANGED <<should_pause, buffer_callback, resume_callback, cbInvoked, withheld>>
  ELSE /\ pc' = "loop" /\ UNCHANGED <<assertFailed, should_pause, buffer_callback>>
       /\ IF ~item.callback
          THEN UNCHANGED <<resume_callback, cbInvoked, withheld>>
          ELSE IF should_pause
               THEN /\ resume_callback' = item.seq
                    /\ withheld' = withheld \cup {item.seq}
                    /\ UNCHANGED cbInvoked
               ELSE /\ cbInvoked' = cbInvoked \cup {item.seq}
                    /\ UNCHANGED <<resume_callback, withheld>>

\* case "done" accepts any result.
DoneCase_AcceptsAll(item) ==
  /\ pc' = "done"
  /\ UNCHANGED <<should_pause, buffer_callback, resume_callback, cbInvoked, withheld, assertFailed>>

\* case "done" (part_001:491-498)
DoneCase(item) ==
  /\ pc' = IF item.status # 0 \/ item.errorMessage # "" THEN "failed" ELSE "done"
  /\ UNCHANGED <<should_pause, buffer_callback, resume_callback, cbInvoked, withheld, assertFailed>>

\* const item = buffer.pop(): last in, first out.
Shift_TakesLast(b) == [item |-> b[Len(b)], rest |-> SubSeq(b, 1, Len(b) - 1)]

\* const item = buffer.shift() (part_001:468)
Shift(b) == [item |-> Head(b), rest |-> Tail(b)]

\* One iteration of while (buffer.length) (part_001:466-502).
LoopStep ==
  /\ UNCHANGED notRs
  /\ pc = "loop"
  /\ buffer # <<>>
  /\ LET item == Shift(buffer).item IN
       /\ buffer' = Shift(buffer).rest
       /\ lastDeq' = item
       /\ CASE item.op = "entry" ->
                 /\ yielded' = Append(yielded, item.n)
                 /\ pc' = "yielded"
                 /\ UNCHANGED <<should_pause, buffer_callback, resume_callback,
                                cbInvoked, withheld, assertFailed>>
            [] item.op = "page" ->
                 /\ PageCase(item)
                 /\ UNCHANGED yielded
            [] item.op = "done" ->
                 /\ DoneCase(item)
                 /\ UNCHANGED yielded
            [] OTHER -> \* "referral" and "err" throw
                 /\ pc' = "failed"
                 /\ UNCHANGED <<yielded, should_pause, buffer_callback, resume_callback,
                                cbInvoked, withheld, assertFailed>>
  /\ UNCHANGED <<transport, awaiting, tEnded, tLast, inPage, nEvents, nEntries,
                 overflowed>>

\* waitUntilBufferIsNonempty stores the resolve function without calling
\* bufferctl.
LoopWait_NoBufferctl ==
  /\ UNCHANGED notRs
  /\ pc = "loop"
  /\ buffer = <<>>
  /\ ~buffer_callback
  /\ SetDriver([Driver EXCEPT !.buffer_callback = TRUE])
  /\ UNCHANGED overflowed
  /\ pc' = "waiting"
  /\ UNCHANGED <<transport, awaiting, tEnded, tLast, inPage, nEvents, nEntries,
                 yielded, lastDeq, withheld, assertFailed>>

\* await waitUntilBufferIsNonempty() with the buffer empty (part_001:452-462,
\* 503): the resolve function is stored and bufferctl runs.
LoopWait ==
  /\ UNCHANGED notRs
  /\ pc = "loop"
  /\ buffer = <<>>
  /\ ~buffer_callback
  /\ SetDriver(bufferctl([Driver EXCEPT !.buffer_callback = TRUE]))
  /\ overflowed' = OverflowedAfter(0, overflowed)
  /\ pc' = "waiting"
  /\ UNCHANGED <<transport, awaiting, tEnded, tLast, inPage, nEvents, nEntries,
                 yielded, lastDeq, withheld, assertFailed>>

\* bufferctl has called buffer_callback(true): the generator goes on.
Resume ==
  /\ UNCHANGED notRs
  /\ pc = "waiting"
  /\ ~buffer_callback
  /\ pc' = "loop"
  /\ UNCHANGED <<buffer, should_pause, buffer_callback, resume_callback, cbInvoked,
                 transport, awaiting, tEnded, tLast, inPage, nEvents, nEntries,
                 yielded, lastDeq, withheld, overflowed, assertFailed>>

\* The consumer asks for the next entry.
ConsumerNext ==
  /\ UNCHANGED notRs
  /\ pc = "yielded"
  /\ pc' = "loop"
  /\ UNCHANGED <<buffer, should_pause, buffer_callback, resume_callback, cbInvoked,
                 transport, awaiting, tEnded, tLast, inPage, nEvents, nEntries,
                 yielded, lastDeq, withheld, overflowed, assertFailed>>

\* The consumer abandons the iteration: return() at the yield.
ConsumerReturn ==
  /\ UNCHANGED notRs
  /\ pc = "yielded"
  /\ pc' = "returned"
  /\ UNCHANGED <<buffer, should_pause, buffer_callback, resume_callback, cbInvoked,
                 transport, awaiting, tEnded, tLast, inPage, nEvents, nEntries,
                 yielded, lastDeq, withheld, overflowed, assertFailed>>

----------------------------------------------------------------------------
(* getObjects: the connection it uses *)

\* Leaving the try block (part_001:363-370) for its finally block.
Leave(how) ==
  /\ completion' = how
  /\ go_pc' = "finally"

\* The first next().  The checks ahead of the try block (part_001:238-265:
\* the options, the initialization, the selected attributes) throw or pass;
\* then, without a caller-supplied connection, newConnection creates a
\* client and calls bind (part_001:362-366, 378-387).
GetObjectsStart ==
  /\ UNCHANGED notGo
  /\ go_pc = "idle"
  /\ \E passes \in BOOLEAN :
       IF ~passes
       THEN /\ go_pc' = "finished"
            /\ completion' = "throw"
            /\ completions' = completions \cup {"throw"}
            /\ UNCHANGED <<client, bindCalls>>
       ELSE /\ UNCHANGED <<completion, completions>>
            /\ IF connection_is_external
               THEN go_pc' = "filter" /\ UNCHANGED <<client, bindCalls>>
               ELSE go_pc' = "binding" /\ client' = "created" /\ bindCalls' = bindCalls + 1
  /\ UNCHANGED <<connection_is_external, bound, failUnbinds, endCalls,
                 where_valid, clientSideTransitiveSearch, lookups, nYielded,
                 searchesDone>>

\* bind succeeds: newConnection returns { search, end: unbind } (part_001:392).
BindSucceeds ==
  /\ UNCHANGED notGo
  /\ go_pc = "binding"
  /\ client' = "bound"
  /\ bound' = TRUE
  /\ go_pc' = "filter"
  /\ UNCHANGED <<connection_is_external, bindCalls, failUnbinds, endCalls, completion,
                 where_valid, clientSideTransitiveSearch, lookups, nYielded,
                 searchesDone, completions>>

\* bind fails: await unbind(); throw err (part_001:388-391).
BindFails ==
  /\ UNCHANGED notGo
  /\ go_pc = "binding"
  /\ failUnbinds' = failUnbinds + 1
  /\ client' = "unbound"
  /\ Leave("throw")
  /\ UNCHANGED <<connection_is_external, bound, bindCalls, endCalls,
                 where_valid, clientSideTransitiveSearch, lookups, nYielded,
                 searchesDone, completions>>

\* A rewriter that does not compile the where expression first.
RewriteFilter_NoValidation ==
  /\ UNCHANGED notGo
  /\ go_pc = "filter"
  /\ IF clientSideTransitiveSearch
     THEN \E n \in 0..MaxVirtual :
            /\ lookups' = lookups + n
            /\ go_pc' = IF n = 0 THEN "search" ELSE "rewriting"
            /\ UNCHANGED completion
     ELSE go_pc' = "search" /\ UNCHANGED <<lookups, completion>>
  /\ UNCHANGED <<connection_is_external, client, bound, bindCalls, failUnbinds, endCalls,
                 where_valid, clientSideTransitiveSearch, nYielded,
                 searchesDone, completions>>

\* part_001:367.  With clientSideTransitiveSearch the rewriter first
\* compiles the where expression (part_001:622) and then starts one group
\* lookup per virtual-attribute node (part_001:609, 615).
RewriteFilter ==
  /\ UNCHANGED notGo
  /\ go_pc = "filter"
  /\ IF clientSideTransitiveSearch
     THEN IF ~where_valid
          THEN Leave("throw") /\ UNCHANGED lookups
          ELSE \E n \in 0..MaxVirtual :
                 /\ lookups' = lookups + n
                 /\ go_pc' = IF n = 0 THEN "search" ELSE "rewriting"
                 /\ UNCHANGED completion
     ELSE go_pc' = "search" /\ UNCHANGED <<lookups, completion>>
  /\ UNCHANGED <<connection_is_external, client, bound, bindCalls, failUnbinds, endCalls,
                 where_valid, clientSideTransitiveSearch, nYielded,
                 searchesDone, completions>>

\* A group lookup ends; the rewrite is complete when all of this call's
\* lookups have ended.
LookupEnds ==
  /\ UNCHANGED notGo
  /\ lookups > 0
  /\ lookups' = lookups - 1
  /\ go_pc' = IF go_pc = "rewriting" /\ lookups = 1 THEN "search" ELSE go_pc
  /\ UNCHANGED <<connection_is_external, client, bound, bindCalls, failUnbinds, endCalls,
                 completion, where_valid, clientSideTransitiveSearch, nYielded,
                 searchesDone, completions>>

\* A group lookup fails: Promise.all rejects while the other lookups go on.
LookupFails ==
  /\ UNCHANGED notGo
  /\ go_pc = "rewriting"
  /\ lookups > 0
  /\ lookups' = lookups - 1
  /\ Leave("throw")
  /\ UNCHANGED <<connection_is_external, client, bound, bindCalls, failUnbinds, endCalls,
                 where_valid, clientSideTransitiveSearch, nYielded,
                 searchesDone, completions>>

\* rawSearch starts (part_001:368, 396-403): ldapfilter compiles the filter
\* and connection.search sends the query; either may throw.
RawSearchBegins ==
  /\ UNCHANGED notGo
  /\ go_pc = "search"
  /\ IF ~where_valid
     THEN Leave("throw")
     ELSE \E sent \in BOOLEAN :
            IF sent THEN go_pc' = "streaming" /\ UNCHANGED completion ELSE Leave("throw")
  /\ UNCHANGED <<connection_is_external, client, bound, bindCalls, failUnbinds, endCalls,
                 where_valid, clientSideTransitiveSearch, lookups, nYielded,
                 searchesDone, completions>>

\* rawSearch yields an entry: process(entry, connection) is called.
StreamEntry ==
  /\ UNCHANGED notGo
  /\ go_pc = "streaming"
  /\ nYielded < MaxYield
  /\ go_pc' = "processing"
  /\ UNCHANGED <<connection_is_external, client, bound, bindCalls, failUnbinds, endCalls,
                 completion, where_valid, clientSideTransitiveSearch, lookups, nYielded,
                 searchesDone, completions>>

\* rawSearch throws: a transport error, a referral, a failing end result.
StreamFails ==
  /\ UNCHANGED notGo
  /\ go_pc = "streaming"
  /\ Leave("throw")
  /\ UNCHANGED <<connection_is_external, client, bound, bindCalls, failUnbinds, endCalls,
                 where_valid, clientSideTransitiveSearch, lookups, nYielded,
                 searchesDone, completions>>

\* rawSearch ends: the for await loop is left normally.
StreamEnds ==
  /\ UNCHANGED notGo
  /\ go_pc = "streaming"
  /\ Leave("normal")
  /\ UNCHANGED <<connection_is_external, client, bound, bindCalls, failUnbinds, endCalls,
                 where_valid, clientSideTransitiveSearch, lookups, nYielded,
                 searchesDone, completions>>

\* process meets a ranged attribute and awaits completeValueRange, a
\* subsearch on the same connection (part_001:308).
ProcessStartsRange ==
  /\ UNCHANGED notGo
  /\ go_pc = "processing"
  /\ go_pc' = "ranging"
  /\ UNCHANGED <<connection_is_external, client, bound, bindCalls, failUnbinds, endCalls,
                 completion, where_valid, clientSideTransitiveSearch, lookups, nYielded,
                 searchesDone, completions>>

\* completeValueRange returns, or throws.
RangeSearchEnds ==
  /\ UNCHANGED notGo
  /\ go_pc = "ranging"
  /\ \E ok \in BOOLEAN :
       IF ok THEN go_pc' = "processing" /\ UNCHANGED completion ELSE Leave("throw")
  /\ UNCHANGED <<connection_is_external, client, bound, bindCalls, failUnbinds, endCalls,
                 where_valid, clientSideTransitiveSearch, lookups, nYielded,
                 searchesDone, completions>>

\* process returns the record and getObjects yields it (part_001:369).
ProcessReturns ==
  /\ UNCHANGED notGo
  /\ go_pc = "processing"
  /\ go_pc' = "yielded"
  /\ nYielded' = nYielded + 1
  /\ UNCHANGED <<connection_is_external, client, bound, bindCalls, failUnbinds, endCalls,
                 completion, where_valid, clientSideTransitiveSearch, lookups,
                 searchesDone, completions>>

\* process throws: an entry that breaks an invariant, a decoder error.
ProcessThrows ==
  /\ UNCHANGED notGo
  /\ go_pc = "processing"
  /\ Leave("throw")
  /\ UNCHANGED <<connection_is_external, client, bound, bindCalls, failUnbinds, endCalls,
                 where_valid, clientSideTransitiveSearch, lookups, nYielded,
                 searchesDone, completions>>

\* The consumer asks for the next record.
GoConsumerNext ==
  /\ UNCHANGED notGo
  /\ go_pc = "yielded"
  /\ go_pc' = "streaming"
  /\ UNCHANGED <<connection_is_external, client, bound, bindCalls, failUnbinds, endCalls,
                 completion, where_valid, clientSideTransitiveSearch, lookups, nYielded,
                 searchesDone, completions>>

\* The consumer abandons the iteration: return() at the yield runs the
\* finally block; return() before the first next() runs nothing.
GoConsumerReturn ==
  /\ UNCHANGED notGo
  /\ \/ go_pc = "yielded" /\ Leave("return") /\ UNCHANGED completions
     \/ /\ go_pc = "idle"
        /\ go_pc' = "finished"
        /\ completion' = "return"
        /\ completions' = completions \cup {"return"}
  /\ UNCHANGED <<connection_is_external, client, bound, bindCalls, failUnbinds, endCalls,
                 where_valid, clientSideTransitiveSearch, lookups, nYielded,
                 searchesDone>>

\* The finally block ends the connection only after a normal end or an error.
Finally_SkipsOnReturn ==
  /\ UNCHANGED notGo
  /\ go_pc = "finally"
  /\ IF (connection_is_external \/ bound) /\ ~connection_is_external /\ completion # "return"
     THEN endCalls' = endCalls + 1 /\ client' = "unbound"
     ELSE UNCHANGED <<endCalls, client>>
  /\ go_pc' = "finished"
  /\ completions' = completions \cup {completion}
  /\ UNCHANGED <<connection_is_external, bound, bindCalls, failUnbinds, completion,
                 where_valid, clientSideTransitiveSearch, lookups, nYielded, searchesDone>>

\* The finally block ends whatever connection it holds.
Finally_EndsExternal ==
  /\ UNCHANGED notGo
  /\ go_pc = "finally"
  /\ IF connection_is_external \/ bound
     THEN endCalls' = endCalls + 1 /\ client' = "unbound"
     ELSE UNCHANGED <<endCalls, client>>
  /\ go_pc' = "finished"
  /\ completions' = completions \cup {completion}
  /\ UNCHANGED <<connection_is_external, bound, bindCalls, failUnbinds, completion,
                 where_valid, clientSideTransitiveSearch, lookups, nYielded, searchesDone>>

\* finally { if (connection && !connection_is_external) await connection.end() }
\* (part_001:371-375); the generator is finished after it.
Finally ==
  /\ UNCHANGED notGo
  /\ go_pc = "finally"
  /\ IF (connection_is_external \/ bound) /\ ~connection_is_external
     THEN endCalls' = endCalls + 1 /\ client' = "unbound"
     ELSE UNCHANGED <<endCalls, client>>
  /\ go_pc' = "finished"
  /\ completions' = completions \cup {completion}
  /\ UNCHANGED <<connection_is_external, bound, bindCalls, failUnbinds, completion,
                 where_valid, clientSideTransitiveSearch, lookups, nYielded, searchesDone>>

\* The caller of a finished search runs another one on the connection it
\* supplied (integrationTests.js:38-52).
CallerSearchesAgain ==
  /\ UNCHANGED notGo
  /\ go_pc = "finished"
  /\ connection_is_external
  /\ searchesDone < MaxSearches
  /\ searchesDone' = searchesDone + 1
  /\ go_pc' = "idle"
  /\ completion' = "normal"
  /\ nYielded' = 0
  /\ where_valid' \in BOOLEAN
  /\ clientSideTransitiveSearch' \in BOOLEAN
  /\ UNCHANGED <<connection_is_external, client, bound, bindCalls, failUnbinds, endCalls,
                 lookups, completions>>

----------------------------------------------------------------------------
(* getObjects: one entry through process *)

\* Attribute names a caller may select; the keys ldapjs adds to an entry's
\* object on its own; the key of a ranged chunk of member, such as
\* "member;range=0-1499" (part_001:296-302).
Names == {"cn", "member", "distinguishedName"}
Ignored == {"dn", "controls"}
Ranged == "member;range"
RangedOf == "member"
Keys == Names \cup Ignored \cup {Ranged}

\* entry.object and the lengths of the raw value lists, as the number of
\* values under each key (-1: no such key).  ldapjs gives one value as a
\* scalar and any other number of values as an array.
Absent == 0 - 1
Entries ==
  {e \in [Keys -> Absent..MaxValues] :
     /\ e["dn"] = 1
     /\ e["controls"] = 0
     /\ e[Ranged] \in {Absent, MaxValues}}

IsArray(k) == k # 1

\* const select_includes = attribute => _.includes(select, attribute) (part_001:251)
select_includes(attribute) == attribute \in select

\* A multi-valued attribute's single value is passed on unwrapped.
AttrOutcome_NoWrap(e, a, subOk) ==
  LET ranged == a = Ranged
      attrib == IF ranged THEN RangedOf ELSE a
  IN IF ranged /\ ~(select_includes(RangedOf) /\ e[RangedOf] = 0 /\ initialized /\ subOk)
     THEN "throw"
     ELSE IF ~select_includes(attrib)
     THEN IF attrib \in Ignored \cup {"distinguishedName"} THEN "skip" ELSE "throw"
     ELSE IF dictSingleValued[attrib] = "multi"
     THEN IF ranged \/ IsArray(e[a]) THEN "list" ELSE "scalar"
     ELSE IF dictSingleValued[attrib] = "single"
     THEN IF ranged \/ IsArray(e[a]) THEN "throw" ELSE "scalar"
     ELSE "throw"

\* The body of for (let attrib in obj) for the key a (part_001:293-357):
\* "throw", "skip" (continue), or the shape of the value put into ret.
\* subOk: completeValueRange and the decoder of the attribute return.
AttrOutcome(e, a, subOk) ==
  LET ranged == a = Ranged
      attrib == IF ranged THEN RangedOf ELSE a
  IN IF ranged /\ ~(select_includes(RangedOf) /\ e[RangedOf] = 0 /\ initialized /\ subOk)
     THEN "throw"
     ELSE IF ~select_includes(attrib)
     THEN IF attrib \in Ignored \cup {"distinguishedName"} THEN "skip" ELSE "throw"
     ELSE IF dictSingleValued[attrib] = "multi"
     THEN IF subOk THEN "list" ELSE "throw"
     ELSE IF dictSingleValued[attrib] = "single"
     THEN IF ranged \/ IsArray(e[a]) \/ ~subOk THEN "throw" ELSE "scalar"
     ELSE "throw"

\* const process = async (entry, process_connection) => ... (part_001:271-359):
\* ok is FALSE when it throws; ret maps each key of the record to the shape
\* of its value.
process(e, subOk) ==
  LET present == {a \in Keys : e[a] # Absent}
      actual(a) == IF a = Ranged THEN RangedOf ELSE a
      kept == {a \in present : AttrOutcome(e, a, subOk) \in {"scalar", "list"}}
  IN IF present \subseteq Ignored
     THEN [ok |-> FALSE, ret |-> <<>>]
     ELSE IF \E a \in present : AttrOutcome(e, a, subOk) = "throw"
     THEN [ok |-> FALSE, ret |-> <<>>]
     ELSE [ok |-> TRUE,
           ret |-> [n \in {actual(a) : a \in kept} |->
                      AttrOutcome(e, CHOOSE a \in kept : actual(a) = n, subOk)]]

\* The checks of getObjects ahead of the search (part_001:253-265), after
\* the awaited initialize call has settled.
CheckSelect ==
  /\ UNCHANGED notPr
  /\ pr_pc = "called"
  /\ pr_pc' = IF waitForInitialization
                 /\ (~initialized
                     \/ \E a \in select : a \notin DOMAIN dictSingleValued \/ dictSingleValued[a] = "none")
              THEN "failed" ELSE "streaming"
  /\ UNCHANGED <<hVars, select, waitForInitialization, pr_entry, pr_ret>>

\* yield await process(entry, connection) (part_001:369) for an entry of the
\* search.
ProcessEntry ==
  /\ UNCHANGED notPr
  /\ pr_pc = "streaming"
  /\ \E e \in Entries, subOk \in BOOLEAN :
       /\ pr_entry' = e
       /\ pr_pc' = IF process(e, subOk).ok THEN "yielded" ELSE "failed"
       /\ pr_ret' = process(e, subOk).ret
  /\ UNCHANGED <<hVars, select, waitForInitialization>>

----------------------------------------------------------------------------
(* The throttled initialize *)

\* const attributesNeededForInitialization = ["lDAPDisplayName",
\* "attributeSyntax", "isSingleValued"] (part_001:12); the model keeps one.
attributesNeededForInitialization == {"lDAPDisplayName"}
AllNames == Names \cup attributesNeededForInitialization

\* The attribute syntaxes of the model: Boolean, decoded by ldapBool, and
\* DirectoryString, left to ldapjs (part_001:140-174).
Syntaxes == {"2.5.5.8", "2.5.5.12"}
NoFormatters == [a \in AllNames |-> "none"]

Row(name, isv, syntax) ==
  [lDAPDisplayName |-> name, isSingleValued |-> isv, attributeSyntax |-> syntax]

\* The attributeSchema rows the schema search of initialize yields, in the
\* order the directory returns them.
SchemaRows ==
  << Row("cn", "single", "2.5.5.12"),
     Row("member", "multi", "2.5.5.12"),
     Row("distinguishedName", "single", "2.5.5.12") >>

\* Other schemas a directory may hold: the row of an attribute needed for
\* initialization, the row of member, and one more row, which may repeat
\* member.
Schemas ==
  { << Row("lDAPDisplayName", i1, "2.5.5.12"), Row("member", i2, s2), Row(n3, "single", s3) >> :
      i1 \in {"single", "multi"}, i2 \in {"single", "multi"}, s2 \in Syntaxes,
      n3 \in Names, s3 \in Syntaxes }

\* The keys of overrideSingleValued copied into dictSingleValued, and the
\* attributes needed for initialization (part_001:83-87).
Constructed(override) ==
  [a \in AllNames |-> IF a \in attributesNeededForInitialization THEN "single" ELSE override[a]]

\* The throttle invokes on every call.
shouldInvoke_Always(time) == TRUE

\* this.initialize = _.throttle(this.initialize.bind(this),
\*   initialize_throttle_delay, { leading: true, trailing: false })
\* (part_001:130).  lodash's throttle is its debounce with maxWait = wait; a
\* call invokes the function when shouldInvoke holds at the time of the call:
\*   lastCallTime === undefined || time - lastCallTime >= wait ||
\*   time - lastCallTime < 0 || time - lastInvokeTime >= maxWait
\* and otherwise returns the result of the last invocation.
shouldInvoke(time) ==
  \/ lastCallTime = Absent
  \/ time - lastCallTime >= initialize_throttle_delay
  \/ time - lastCallTime < 0
  \/ time - lastInvokeTime >= initialize_throttle_delay

\* What a call of the throttled initialize returns: the promise of the
\* attempt it starts, or the promise the last invocation returned
\* (0: undefined, nothing was invoked yet).
ThrottledReturn == IF shouldInvoke(now) THEN Len(attempts) + 1 ELSE result

\* A call of the throttled initialize: the bookkeeping of the throttle and,
\* when it invokes, the start of initialize (part_001:133-177), which runs
\* up to the first await of its schema search.
ThrottledCall ==
  /\ ThrottledReturn > Len(attempts) => Len(attempts) < MaxAttempts
  /\ lastCallTime' = now
  /\ IF ThrottledReturn > Len(attempts)
     THEN /\ lastInvokeTime' = now
          /\ attempts' = Append(attempts, [state |-> "pending", pos |-> 0, started |-> now])
          /\ result' = Len(attempts) + 1
     ELSE UNCHANGED <<lastInvokeTime, attempts, result>>

Pending == {k \in 1..Len(attempts) : attempts[k].state = "pending"}

\* Time passes while every coroutine is suspended.
Tick ==
  /\ UNCHANGED notIn
  /\ now < MaxTicks * TickMs
  /\ now' = now + TickMs
  /\ UNCHANGED <<hVars, lastCallTime, lastInvokeTime, result, attempts, callers>>

\* getObjects goes on to its search without looking at this.initialized.
CallGetObjects_NoWait(c) ==
  /\ UNCHANGED notIn
  /\ callers[c].pc = "idle"
  /\ callers' = [callers EXCEPT ![c] = [pc |-> "searching", kind |-> "getObjects", awaits |-> 0]]
  /\ UNCHANGED <<hVars, now, lastCallTime, lastInvokeTime, result, attempts>>

\* getObjects with waitForInitialization true, up to its first await
\* (part_001:253-257): if (!this.initialized) await this.initialize(req).
CallGetObjects(c) ==
  /\ UNCHANGED notIn
  /\ callers[c].pc = "idle"
  /\ IF initialized
     THEN /\ callers' = [callers EXCEPT ![c] = [pc |-> "searching", kind |-> "getObjects", awaits |-> 0]]
          /\ UNCHANGED <<lastCallTime, lastInvokeTime, result, attempts>>
     ELSE /\ ThrottledCall
          /\ callers' = [callers EXCEPT ![c] = [pc |-> "awaiting", kind |-> "getObjects",
                                                awaits |-> ThrottledReturn]]
  /\ UNCHANGED <<hVars, now>>

\* A caller's own await handler.initialize(req): the throttle does not look
\* at this.initialized.
CallInitialize(c) ==
  /\ UNCHANGED notIn
  /\ callers[c].pc = "idle"
  /\ ThrottledCall
  /\ callers' = [callers EXCEPT ![c] = [pc |-> "awaiting", kind |-> "initialize",
                                        awaits |-> ThrottledReturn]]
  /\ UNCHANGED <<hVars, now>>

\* The caller goes on without waiting for the promise to settle.
CallerResumes_Early(c) ==
  /\ UNCHANGED notIn
  /\ callers[c].pc = "awaiting"
  /\ LET p == callers[c].awaits
         rejected == p # 0 /\ attempts[p].state = "rejected"
     IN callers' = [callers EXCEPT ![c].pc =
             IF rejected THEN "failed"
             ELSE IF callers[c].kind = "initialize" THEN "returned"
             ELSE IF initialized THEN "searching" ELSE "failed"]
  /\ UNCHANGED <<hVars, now, lastCallTime, lastInvokeTime, result, attempts>>

\* The awaited promise has settled (undefined settles at once): getObjects
\* goes on to assert(this.initialized) (part_001:258); a rejected promise
\* throws out of the await.
CallerResumes(c) ==
  /\ UNCHANGED notIn
  /\ callers[c].pc = "awaiting"
  /\ LET p == callers[c].awaits
         rejected == p # 0 /\ attempts[p].state = "rejected"
     IN /\ p # 0 => attempts[p].state # "pending"
        /\ callers' = [callers EXCEPT ![c].pc =
             IF rejected THEN "failed"
             ELSE IF callers[c].kind = "initialize" THEN "returned"
             ELSE IF initialized THEN "searching" ELSE "failed"]
  /\ UNCHANGED <<hVars, now, lastCallTime, lastInvokeTime, result, attempts>>

\* A row whose name is in the schema map overwrites the entry.
AttemptRow_Overwrites(k) ==
  /\ UNCHANGED notIn
  /\ k \in Pending
  /\ attempts[k].pos < Len(schema)
  /\ LET item == schema[attempts[k].pos + 1]
     IN /\ dictSingleValued' =
             [dictSingleValued EXCEPT ![item.lDAPDisplayName] = item.isSingleValued]
        /\ attempts' = [attempts EXCEPT ![k].pos = @ + 1]
  /\ UNCHANGED <<initialized, booleanAttributes, extractionFormatters,
                 now, lastCallTime, lastInvokeTime, result, callers>>

\* A bootstrap that accepts every row of an attribute it knows, unless it
\* is needed for initialization.
AttemptRow_AcceptsKnown(k) ==
  /\ UNCHANGED notIn
  /\ k \in Pending
  /\ attempts[k].pos < Len(schema)
  /\ LET item == schema[attempts[k].pos + 1]
         name == item.lDAPDisplayName
         isv == item.isSingleValued
         known == dictSingleValued[name] # "none"
         passes == IF ~known THEN TRUE
                   ELSE IF name \in attributesNeededForInitialization THEN isv = "single"
                   ELSE TRUE
     IN IF passes
        THEN /\ dictSingleValued' = IF known THEN dictSingleValued
                                    ELSE [dictSingleValued EXCEPT ![name] = isv]
             /\ booleanAttributes' = IF item.attributeSyntax = "2.5.5.8"
                                     THEN booleanAttributes \cup {name} ELSE booleanAttributes
             /\ extractionFormatters' =
                  IF extractionFormatters[name] = "none" /\ item.attributeSyntax = "2.5.5.8"
                  THEN [extractionFormatters EXCEPT ![name] = "ldapBool"]
                  ELSE extractionFormatters
             /\ attempts' = [attempts EXCEPT ![k].pos = @ + 1]
        ELSE /\ attempts' = [attempts EXCEPT ![k].state = "rejected"]
             /\ UNCHANGED <<dictSingleValued, booleanAttributes, extractionFormatters>>
  /\ UNCHANGED <<initialized, now, lastCallTime, lastInvokeTime, result, callers>>

\* One row of the schema search in attempt k (part_001:177-227): the
\* schema map, then the boolean attributes, then the decoder table.  A
\* failed assertion rejects the attempt before the later writes.
AttemptRow(k) ==
  /\ UNCHANGED notIn
  /\ k \in Pending
  /\ attempts[k].pos < Len(schema)
  /\ LET item == schema[attempts[k].pos + 1]
         name == item.lDAPDisplayName
         isv == item.isSingleValued
         known == dictSingleValued[name] # "none"
         passes == IF ~known THEN TRUE
                   ELSE IF name \in attributesNeededForInitialization THEN isv = "single"
                   ELSE dictSingleValued[name] # isv
     IN IF passes
        THEN /\ dictSingleValued' = IF known THEN dictSingleValued
                                    ELSE [dictSingleValued EXCEPT ![name] = isv]
             /\ booleanAttributes' = IF item.attributeSyntax = "2.5.5.8"
                                     THEN booleanAttributes \cup {name} ELSE booleanAttributes
             /\ extractionFormatters' =
                  IF extractionFormatters[name] = "none" /\ item.attributeSyntax = "2.5.5.8"
                  THEN [extractionFormatters EXCEPT ![name] = "ldapBool"]
                  ELSE extractionFormatters
             /\ attempts' = [attempts EXCEPT ![k].pos = @ + 1]
        ELSE /\ attempts' = [attempts EXCEPT ![k].state = "rejected"]
             /\ UNCHANGED <<dictSingleValued, booleanAttributes, extractionFormatters>>
  /\ UNCHANGED <<initialized, now, lastCallTime, lastInvokeTime, result, callers>>

\* The schema search of attempt k fails: the bind, the search or a row
\* throws.
AttemptFails(k) ==
  /\ UNCHANGED notIn
  /\ k \in Pending
  /\ attempts[k].pos < Len(schema)
  /\ attempts' = [attempts EXCEPT ![k].state = "rejected"]
  /\ UNCHANGED <<hVars, now, lastCallTime, lastInvokeTime, result, callers>>

\* The attributes that initialize asserts not to be boolean
\* (part_001:229), as far as the model has them.
NeverBoolean == {"distinguishedName", "lDAPDisplayName", "member"}

\* initialize sets initialized without its assertions.
AttemptEnds_NoAsserts(k) ==
  /\ UNCHANGED notIn
  /\ k \in Pending
  /\ attempts[k].pos = Len(schema)
  /\ initialized' = TRUE
  /\ attempts' = [attempts EXCEPT ![k].state = "resolved"]
  /\ UNCHANGED <<dictSingleValued, booleanAttributes, extractionFormatters,
                 now, lastCallTime, lastInvokeTime, result, callers>>

\* The schema search of attempt k has ended (part_001:228-233).
AttemptEnds(k) ==
  /\ UNCHANGED notIn
  /\ k \in Pending
  /\ attempts[k].pos = Len(schema)
  /\ IF dictSingleValued["member"] = "multi" /\ booleanAttributes \cap NeverBoolean = {}
     THEN /\ initialized' = TRUE
          /\ attempts' = [attempts EXCEPT ![k].state = "resolved"]
     ELSE /\ attempts' = [attempts EXCEPT ![k].state = "rejected"]
          /\ UNCHANGED initialized
  /\ UNCHANGED <<dictSingleValued, booleanAttributes, extractionFormatters,
                 now, lastCallTime, lastInvokeTime, result, callers>>

----------------------------------------------------------------------------
(* completeValueRange *)

\* The i-th value of the attribute in range-index order, as ldapjs parses
\* it, and its raw bytes.
DirValue(i) == i
DirRawValue(i) == 100 + i

\* rangeTo "*"
Star == 0 - 1

Reverse(q) == [i \in 1..Len(q) |-> q[Len(q) + 1 - i]]
Max(a, b) == IF a >= b THEN a ELSE b
Min(a, b) == IF a <= b THEN a ELSE b

\* What the server answers to <attribute>;range=<from>-* when it returns
\* size values: the values at range indexes from .. from + size - 1, last
\* first, under the name <attribute>;range=<from>-<to>, with "*" for <to>
\* when the chunk reaches the end.
ServerChunk(from, size) ==
  LET last == Min(rc_N, from + size)
  IN [wellFormed |-> TRUE,
      rangeFrom |-> from,
      rangeTo |-> IF last = rc_N THEN Star ELSE last - 1,
      vals |-> Reverse([i \in 1..(last - from) |-> DirValue(from + i)]),
      rawvals |-> Reverse([i \in 1..(last - from) |-> DirRawValue(from + i)])]

\* The answers that differ from the server's in one respect: not one entry
\* with the right name, another range start, another range end, a decoded
\* or a raw value changed.
Garbled(r) ==
  {[r EXCEPT !.wellFormed = FALSE],
   [r EXCEPT !.rangeFrom = @ + 1],
   [r EXCEPT !.rangeTo = IF @ = Star THEN Len(r.vals) ELSE @ + 1]}
  \cup {[r EXCEPT !.vals[p] = 0] : p \in 1..Len(r.vals)}
  \cup {[r EXCEPT !.rawvals[p] = 0] : p \in 1..Len(r.rawvals)}

NoResponse == [wellFormed |-> FALSE, rangeFrom |-> 0, rangeTo |-> 0, vals |-> <<>>, rawvals |-> <<>>]

\* No call of completeValueRange yet.
RcIdle ==
  /\ rc_pc = "idle"
  /\ rc_N = 0
  /\ initValues = <<>>
  /\ initRawValues = <<>>
  /\ offset = 0
  /\ rounds = 0
  /\ response = NoResponse
  /\ data_values = <<>>
  /\ data_rawValues = <<>>

\* The overlap is compared in the decoded values only.
Accepts_NoRawCheck(e) ==
  /\ e.wellFormed
  /\ e.rangeFrom = offset
  /\ Len(e.vals) = Len(e.rawvals)
  /\ OVERLAP < Len(e.vals)
  /\ \A i \in (offset + 1)..Len(initValues) : initValues[i] = Reverse(e.vals)[i - offset]
  /\ e.rangeTo # Star => e.rangeTo = offset + Len(e.vals) - 1

\* The asserts of part_001:536-563 and 573 on the entry e of the subsearch.
Accepts(e) ==
  /\ e.wellFormed
  /\ e.rangeFrom = offset
  /\ Len(e.vals) = Len(e.rawvals)
  /\ OVERLAP < Len(e.vals)
  /\ \A i \in (offset + 1)..Len(initValues) :
       /\ initValues[i] = Reverse(e.vals)[i - offset]
       /\ initRawValues[i] = Reverse(e.rawvals)[i - offset]
  /\ e.rangeTo # Star => e.rangeTo = offset + Len(e.vals) - 1

\* A further round asks from the offset of the round before.
RangeRequest_SameOffset ==
  /\ UNCHANGED notRc
  /\ rc_pc \in {"idle", "next"}
  /\ offset' = offset
  /\ rounds' = rounds + 1
  /\ rc_pc' = "requested"
  /\ UNCHANGED <<rc_N, initValues, initRawValues, response, data_values, data_rawValues>>

\* The entry to completeValueRange up to its rawSearch (part_001:527-534):
\* process calls it without initValues (part_001:308), a further round with
\* the concatenated lists (part_001:575).
RangeRequest ==
  /\ UNCHANGED notRc
  /\ rc_pc \in {"idle", "next"}
  /\ offset' = Max(0, Len(initValues) - OVERLAP)
  /\ rounds' = rounds + 1
  /\ rc_pc' = "requested"
  /\ UNCHANGED <<rc_N, initValues, initRawValues, response, data_values, data_rawValues>>

\* The subsearch has returned e (part_001:535-577).
RangeAnswered(e) ==
  /\ response' = e
  /\ IF ~Accepts(e)
     THEN /\ rc_pc' = "failed"
          /\ UNCHANGED <<initValues, initRawValues, data_values, data_rawValues>>
     ELSE LET newValues == Reverse(e.vals)
              newRawValues == Reverse(e.rawvals)
              concatenatedValues == SubSeq(initValues, 1, offset) \o newValues
              concatenatedRawValues == SubSeq(initRawValues, 1, offset) \o newRawValues
          IN IF e.rangeTo = Star
             THEN /\ rc_pc' = "done"
                  /\ data_values' = newValues
                  /\ data_rawValues' = newRawValues
                  /\ UNCHANGED <<initValues, initRawValues>>
             ELSE /\ rc_pc' = "next"
                  /\ initValues' = concatenatedValues
                  /\ initRawValues' = concatenatedRawValues
                  /\ UNCHANGED <<data_values, data_rawValues>>

\* The server answers the request of the current round.
RangeResponse ==
  /\ UNCHANGED notRc
  /\ rc_pc = "requested"
  /\ \E size \in 1..MaxChunk : RangeAnswered(ServerChunk(offset, size))
  /\ UNCHANGED <<rc_N, offset, rounds>>

\* The subsearch returns something else than the server's answer.
RangeGarbledResponse ==
  /\ UNCHANGED notRc
  /\ rc_pc = "requested"
  /\ \E size \in 1..MaxChunk : \E e \in Garbled(ServerChunk(offset, size)) : RangeAnswered(e)
  /\ UNCHANGED <<rc_N, offset, rounds>>

----------------------------------------------------------------------------
(* The transitive-membership rewriter *)

\* The directory: one object that is no group, and the groups.  Only
\* groups carry the attribute member; memberOf is its back link, which the
\* directory maintains.
Groups == {"g1", "g2", "g3"}
DNs == {"u1"} \cup Groups

\* A directory has at most MaxEdges memberships, and a filter names at most
\* MaxStart DNs.
MaxEdges == 4
MaxStart == 2

Directories ==
  {m \in [Groups -> SUBSET DNs] :
     /\ \A g \in Groups : g \notin m[g]
     /\ Cardinality({e \in Groups \X DNs : e[2] \in m[e[1]]}) <= MaxEdges}

MemberOf(x) == {g \in Groups : x \in member[g]}

\* The values of a real attribute of object x.
Attr(x, a) ==
  CASE a = "member" -> IF x \in Groups THEN member[x] ELSE {}
    [] a = "memberOf" -> MemberOf(x)

\* d is a member of g, directly or through a chain of at most n more groups.
RECURSIVE Chain(_, _, _)
Chain(g, d, n) ==
  /\ g \in Groups
  /\ \/ d \in member[g]
     \/ n > 0 /\ \E y \in member[g] : Chain(y, d, n - 1)

\* The matching rule 1.2.840.113556.1.4.1941 of the directory.
InChain(g, d) == Chain(g, d, Cardinality(Groups))

\* The filter expressions of the model: one equals or oneof on a virtual
\* attribute, bare or under not.  value holds the DNs it names: one for
\* equals, a list for oneof.
VirtualAttributes == {"_transitive_member", "_transitive_memberOf"}

Filters ==
  {[shape |-> s, op |-> o, attrib |-> a, value |-> v] :
     s \in {"leaf", "not"}, o \in {"equals", "oneof"}, a \in VirtualAttributes,
     v \in {w \in SUBSET DNs : Cardinality(w) <= MaxStart}}

WellFormed(f) == f.op = "equals" => Cardinality(f.value) = 1

NoFilter == [shape |-> "leaf", op |-> "oneof", attrib |-> "member", value |-> {}]

\* Whether the directory matches object x against an equals or oneof: on
\* member and memberOf by the values x holds, on the virtual attributes by
\* the in-chain rule, to which ldapfilter compiles them.
LeafMatches(x, f) ==
  CASE f.attrib \in {"member", "memberOf"} -> Attr(x, f.attrib) \cap f.value # {}
    [] f.attrib = "_transitive_member" -> \E d \in f.value : InChain(x, d)
    [] f.attrib = "_transitive_memberOf" -> \E g \in f.value : InChain(g, x)

Matches(x, f) == IF f.shape = "not" THEN ~LeafMatches(x, f) ELSE LeafMatches(x, f)

\* { _transitive_member: "member", _transitive_memberOf: "memberOf" }
AttribOf_Swapped(transitive_attrib) ==
  IF transitive_attrib = "_transitive_member" THEN "memberOf" ELSE "member"

AttribOf(transitive_attrib) ==
  IF transitive_attrib = "_transitive_member" THEN "member" ELSE "memberOf"

\* One search of the lookup: the groups under the base DN one of whose
\* values of the attribute is in the frontier.
GroupSearch(a, frontier) == {g \in baseGroups : Attr(g, a) \cap frontier # {}}

TlIdle ==
  /\ member = [g \in Groups |-> {}]
  /\ baseGroups = Groups
  /\ where = NoFilter
  /\ tl_pc = "idle"
  /\ tl_attribute = "member"
  /\ toLookup = {}
  /\ ret = {}
  /\ searches = <<>>
  /\ filterExpression = NoFilter
  /\ found = {}

\* getObjects with clientSideTransitiveSearch: the rewriter validates the
\* expression, walks to the equals or oneof and calls the lookup.
RewriteCalled ==
  /\ tl_pc = "called"
  /\ clientSideTransitiveSearch
  /\ tl_pc' = "lookup"
  /\ tl_attribute' = AttribOf(where.attrib)
  /\ toLookup' = where.value
  /\ ret' = {}
  /\ UNCHANGED <<member, baseGroups, where, searches, filterExpression, found>>
  /\ UNCHANGED notTl

\* getObjects without it: the expression goes to rawSearch as it is.
RewriteSkipped ==
  /\ tl_pc = "called"
  /\ ~clientSideTransitiveSearch
  /\ tl_pc' = "rewritten"
  /\ filterExpression' = where
  /\ UNCHANGED <<member, baseGroups, where, tl_attribute, toLookup, ret, searches, found>>
  /\ UNCHANGED notTl

LookupIteration_KeepsOnlyFound ==
  /\ tl_pc = "lookup"
  /\ toLookup # {}
  /\ LET nextLevelGroups == GroupSearch(tl_attribute, toLookup)
     IN /\ ret' = ret \cup nextLevelGroups
        /\ toLookup' = nextLevelGroups \ ret
  /\ searches' = Append(searches, [attribute |-> tl_attribute, values |-> toLookup])
  /\ UNCHANGED <<member, baseGroups, where, tl_pc, tl_attribute, filterExpression, found>>
  /\ UNCHANGED notTl

LookupIteration_NoDifference ==
  /\ tl_pc = "lookup"
  /\ toLookup # {}
  /\ LET nextLevelGroups == GroupSearch(tl_attribute, toLookup)
     IN /\ ret' = ret \cup toLookup
        /\ toLookup' = nextLevelGroups
  /\ searches' = Append(searches, [attribute |-> tl_attribute, values |-> toLookup])
  /\ UNCHANGED <<member, baseGroups, where, tl_pc, tl_attribute, filterExpression, found>>
  /\ UNCHANGED notTl

\* One iteration of the lookup's loop.
LookupIteration ==
  /\ tl_pc = "lookup"
  /\ toLookup # {}
  /\ LET nextLevelGroups == GroupSearch(tl_attribute, toLookup)
     IN /\ ret' = ret \cup toLookup
        /\ toLookup' = nextLevelGroups \ ret'
  /\ searches' = Append(searches, [attribute |-> tl_attribute, values |-> toLookup])
  /\ UNCHANGED <<member, baseGroups, where, tl_pc, tl_attribute, filterExpression, found>>
  /\ UNCHANGED notTl

LookupReturns_StartOnly ==
  /\ tl_pc = "lookup"
  /\ toLookup = {}
  /\ tl_pc' = "rewritten"
  /\ filterExpression' = [where EXCEPT !.op = "oneof", !.attrib = tl_attribute]
  /\ UNCHANGED <<member, baseGroups, where, tl_attribute, toLookup, ret, searches, found>>
  /\ UNCHANGED notTl

\* The loop ends; the helper puts a oneof on the real attribute in place of
\* the equals or oneof on the virtual one.
LookupReturns ==
  /\ tl_pc = "lookup"
  /\ toLookup = {}
  /\ tl_pc' = "rewritten"
  /\ filterExpression' = [where EXCEPT !.op = "oneof", !.attrib = tl_attribute, !.value = ret]
  /\ UNCHANGED <<member, baseGroups, where, tl_attribute, toLookup, ret, searches, found>>
  /\ UNCHANGED notTl

\* rawSearch with the expression, from the domain's base DN.
OuterSearch ==
  /\ tl_pc = "rewritten"
  /\ tl_pc' = "done"
  /\ found' = {x \in DNs : Matches(x, filterExpression)}
  /\ UNCHANGED <<member, baseGroups, where, tl_attribute, toLookup, ret, searches,
                 filterExpression>>
  /\ UNCHANGED notTl

----------------------------------------------------------------------------
(* getObjects: the select option *)

\* The names a select list of the model may hold: the attributes, the two
\* pseudo-names, dn, and one name that AttributeNameRE does not match; the
\* lists have at most MaxSelect elements.
IllegalName == "Cn"
SelectNames == Names \cup VirtualAttributes \cup {"dn", IllegalName}
MaxSelect == 3

SelectLists == UNION {[1..n -> SelectNames] : n \in 0..MaxSelect}

Elements(q) == {q[i] : i \in 1..Len(q)}

\* _.uniq: the first occurrence of every element, in order.
RECURSIVE Uniq(_)
Uniq(q) ==
  IF q = <<>> THEN <<>>
  ELSE LET front == Uniq(SubSeq(q, 1, Len(q) - 1))
           last == q[Len(q)]
       IN IF last \in Elements(front) THEN front ELSE Append(front, last)

\* _.filter(q, x => x !== '_transitive_member' && x !== '_transitive_memberOf')
RECURSIVE WithoutVirtual(_)
WithoutVirtual(q) ==
  IF q = <<>> THEN <<>>
  ELSE LET front == WithoutVirtual(SubSeq(q, 1, Len(q) - 1))
           last == q[Len(q)]
       IN IF last \in VirtualAttributes THEN front ELSE Append(front, last)

\* The attribute list "*".
AllAttributes == <<"*">>

\* What select_includes accepts (part_001:251): with "*" the keys of
\* dictSingleValued, else the elements of the list.
Selected(all, list) ==
  IF all THEN {a \in AllNames : dictSingleValued[a] # "none"} ELSE Elements(list)

\* The schema map after a bootstrap over SchemaRows.
Bootstrapped ==
  [a \in AllNames |-> IF a = "member" THEN "multi" ELSE "single"]

SlIdle ==
  /\ select_all = FALSE
  /\ selectList = <<"cn">>
  /\ sl_pc = "idle"
  /\ attributes = <<>>

\* The asserts on select ahead of the wait for initialization
\* (part_001:237-247).
ValidateSelect ==
  /\ sl_pc = "called"
  /\ sl_pc' = IF select_all
                 \/ /\ Len(selectList) >= 1
                    /\ \A x \in Elements(selectList) :
                         x # IllegalName /\ x # "controls" /\ x # "dn"
              THEN "validated" ELSE "rejected"
  /\ UNCHANGED <<select_all, selectList, attributes>>
  /\ UNCHANGED notSl

ComputeAttributes_NoUniq ==
  /\ sl_pc = "validated"
  /\ pr_pc = "streaming"
  /\ sl_pc' = "searching"
  /\ attributes' = IF select_all THEN AllAttributes
                   ELSE WithoutVirtual(Append(selectList, "distinguishedName"))
  /\ UNCHANGED <<select_all, selectList>>
  /\ UNCHANGED notSl

\* const attributes = select_all ? "*" : _.filter(_.uniq([...select,
\* "distinguishedName"]), ...) (part_001:361), handed to rawSearch.
ComputeAttributes ==
  /\ sl_pc = "validated"
  /\ pr_pc = "streaming"
  /\ sl_pc' = "searching"
  /\ attributes' = IF select_all THEN AllAttributes
                   ELSE WithoutVirtual(Uniq(Append(selectList, "distinguishedName")))
  /\ UNCHANGED <<select_all, selectList>>
  /\ UNCHANGED notSl

----------------------------------------------------------------------------
(* getOneObject *)

\* The records of the model, and the most a stream holds.
Records == {"r1", "r2"}
MaxRecords == 4
NoRecord == "none"

Streams == UNION {[1..n -> Records] : n \in 0..MaxRecords}

OoIdle ==
  /\ oo_stream = <<>>
  /\ oo_ending = "end"
  /\ oo_pc = "idle"
  /\ oo_consumed = 0
  /\ searchresult = <<>>
  /\ oo_value = NoRecord
  /\ oo_closed = FALSE

RecordYielded_NoAssert ==
  /\ oo_pc = "running"
  /\ oo_consumed < Len(oo_stream)
  /\ oo_consumed' = oo_consumed + 1
  /\ searchresult' = Append(searchresult, oo_stream[oo_consumed + 1])
  /\ UNCHANGED <<oo_pc, oo_closed>>
  /\ UNCHANGED <<oo_stream, oo_ending, oo_value>>
  /\ UNCHANGED notOo

\* One turn of for await (const record of this.getObjects(arg)): the
\* record is pushed; a failed assert leaves the loop, which closes the
\* iterator.
RecordYielded ==
  /\ oo_pc = "running"
  /\ oo_consumed < Len(oo_stream)
  /\ oo_consumed' = oo_consumed + 1
  /\ searchresult' = Append(searchresult, oo_stream[oo_consumed + 1])
  /\ IF Len(searchresult') <= 1
     THEN UNCHANGED <<oo_pc, oo_closed>>
     ELSE oo_pc' = "failed" /\ oo_closed' = TRUE
  /\ UNCHANGED <<oo_stream, oo_ending, oo_value>>
  /\ UNCHANGED notOo

\* The stream ends: assert(searchresult.length === 1); return searchresult[0].
OneStreamEnds ==
  /\ oo_pc = "running"
  /\ oo_consumed = Len(oo_stream)
  /\ oo_ending = "end"
  /\ IF Len(searchresult) = 1
     THEN oo_pc' = "returned" /\ oo_value' = searchresult[1]
     ELSE oo_pc' = "failed" /\ UNCHANGED oo_value
  /\ UNCHANGED <<oo_stream, oo_ending, oo_consumed, searchresult, oo_closed>>
  /\ UNCHANGED notOo

\* The stream throws: the loop passes the error on.
OneStreamThrows ==
  /\ oo_pc = "running"
  /\ oo_consumed = Len(oo_stream)
  /\ oo_ending = "throw"
  /\ oo_pc' = "failed"
  /\ UNCHANGED <<oo_stream, oo_ending, oo_consumed, searchresult, oo_value, oo_closed>>
  /\ UNCHANGED notOo

----------------------------------------------------------------------------
(* ldapfilter *)

\* A string is the sequence of its characters; NUL stands for the character
\* of code 0.  A value that is no string is the sequence NotAString.
Lower ==
  {"a", "b", "c", "d", "e", "f", "g", "h", "i", "j", "k", "l", "m",
   "n", "o", "p", "q", "r", "s", "t", "u", "v", "w", "x", "y", "z"}
Upper ==
  {"A", "B", "C", "D", "E", "F", "G", "H", "I", "J", "K", "L", "M",
   "N", "O", "P", "Q", "R", "S", "T", "U", "V", "W", "X", "Y", "Z"}
Digits == {"0", "1", "2", "3", "4", "5", "6", "7", "8", "9"}
NUL == "NUL"
LineTerminators == {"\n", "\r"}
Chars == Lower \cup Upper \cup Digits \cup LineTerminators
           \cup {"-", "_", "=", "&", "|", "!", "*", "(", ")", "\\", NUL}
NotAString == <<"number">>

IsString(a) == \A k \in 1..Len(a) : a[k] \in Chars

\* function _escape(inp) (part_002:18-47), character by character.
EscapeChar_Plain(c) == <<c>>

EscapeChar(c) ==
  CASE c = "*" -> <<"\\", "2", "a">>
    [] c = "(" -> <<"\\", "2", "8">>
    [] c = ")" -> <<"\\", "2", "9">>
    [] c = "\\" -> <<"\\", "5", "c">>
    [] c = NUL -> <<"\\", "0", "0">>
    [] OTHER -> <<c>>

\* The strings q[lo] .. q[hi] of a list, one after the other.
RECURSIVE Concat(_, _, _)
Concat(q, lo, hi) ==
  IF lo > hi THEN <<>>
  ELSE IF lo = hi THEN q[lo]
  ELSE LET mid == (lo + hi) \div 2
       IN Concat(q, lo, mid) \o Concat(q, mid + 1, hi)

\* The pieces joined last to first.
Join_Reversed(q) == Concat([k \in 1..Len(q) |-> q[Len(q) + 1 - k]], 1, Len(q))

Join(q) == Concat(q, 1, Len(q))

_escape(inp) == Join([k \in 1..Len(inp) |-> EscapeChar(inp[k])])

\* What a throwing call gives, and what a returning call gives.
Thrown == [ok |-> FALSE, str |-> <<>>]
Returned(s) == [ok |-> TRUE, str |-> s]

\* /^[a-z][A-Za-z0-9-]{1,59}$/u
AttributeNameRE(a) ==
  /\ Len(a) >= 2
  /\ Len(a) <= 60
  /\ a[1] \in Lower
  /\ \A k \in 2..Len(a) : a[k] \in Lower \cup Upper \cup Digits \cup {"-"}

\* function synthattribute(a) (part_002:55-59)
synthattribute(a) ==
  IF IsString(a) /\ AttributeNameRE(a) THEN Returned(a) ELSE Thrown

\* function synthvalue(a) (part_002:61-65); the dot of /^.{1,255}$/u
\* matches no line terminator.
synthvalue(a) ==
  IF /\ IsString(a)
     /\ Len(a) >= 1
     /\ Len(a) <= 255
     /\ \A k \in 1..Len(a) : a[k] \notin LineTerminators
  THEN Returned(_escape(a)) ELSE Thrown

ObjectClass == <<"o", "b", "j", "e", "c", "t", "C", "l", "a", "s", "s">>
StrTRUE == <<"T", "R", "U", "E">>
StrFALSE == <<"F", "A", "L", "S", "E">>

\* The value put into the filter as it is.
Equality_Unescaped(a, prefix, v, suffix) ==
  IF synthattribute(a).ok /\ synthvalue(v).ok
  THEN Returned(<<"(">> \o a \o <<"=">> \o prefix \o v \o suffix \o <<")">>)
  ELSE Thrown

\* "(" attribute "=" prefix value suffix ")", when both are accepted.
Equality(a, prefix, v, suffix) ==
  IF synthattribute(a).ok /\ synthvalue(v).ok
  THEN Returned(<<"(">> \o synthattribute(a).str \o <<"=">> \o prefix
                \o synthvalue(v).str \o suffix \o <<")">>)
  ELSE Thrown

\* function ldapfilter(i, b) (part_002:67-130); the operator is i[1] and
\* the operands follow.
RECURSIVE ldapfilter(_, _)
ldapfilter(i, b) ==
  LET l == Len(i)
      op == i[1]
      operands == [k \in 1..(l - 1) |-> ldapfilter(i[k + 1], b)]
  IN IF l = 0 THEN Thrown
     ELSE CASE op \in {"and", "or"} ->
            IF l < 2 THEN Thrown
            ELSE IF l = 2 THEN ldapfilter(i[2], b)
            ELSE IF \E k \in 1..(l - 1) : ~operands[k].ok THEN Thrown
            ELSE Returned(<<"(", IF op = "and" THEN "&" ELSE "|">>
                          \o Join([k \in 1..(l - 1) |-> operands[k].str]) \o <<")">>)
       [] op = "not" ->
            IF l # 2 THEN Thrown
            ELSE IF ~ldapfilter(i[2], b).ok THEN Thrown
            ELSE Returned(<<"(", "!">> \o ldapfilter(i[2], b).str \o <<")">>)
       [] op = "equals" ->
            IF l # 3 THEN Thrown
            ELSE IF i[2] \in b /\ i[3] # StrTRUE /\ i[3] # StrFALSE THEN Thrown
            ELSE Equality(i[2], <<>>, i[3], <<>>)
       [] op = "beginswith" ->
            IF l # 3 \/ i[2] \in b THEN Thrown
            ELSE Equality(i[2], <<>>, i[3], <<"*">>)
       [] op = "endswith" ->
            IF l # 3 \/ i[2] \in b THEN Thrown
            ELSE Equality(i[2], <<"*">>, i[3], <<>>)
       [] op = "contains" ->
            IF l # 3 \/ i[2] \in b THEN Thrown
            ELSE Equality(i[2], <<"*">>, i[3], <<"*">>)
       [] op = "has" ->
            IF l # 2 \/ ~synthattribute(i[2]).ok THEN Thrown
            ELSE Returned(<<"(">> \o synthattribute(i[2]).str \o <<"=", "*", ")">>)
       [] op = "oneof" ->
            IF l # 3 THEN Thrown
            ELSE IF Len(i[3]) = 0 THEN ldapfilter(<<"false">>, b)
            ELSE ldapfilter(<<"or">> \o [k \in 1..Len(i[3]) |-> <<"equals", i[2], i[3][k]>>], b)
       [] op = "true" ->
            IF l # 1 THEN Thrown ELSE ldapfilter(<<"has", ObjectClass>>, b)
       [] op = "false" ->
            IF l # 1 THEN Thrown ELSE ldapfilter(<<"not", <<"true">>>>, b)
       [] OTHER -> Thrown

\* The attribute slots of the model: two valid names, of which AttrBool is
\* the boolean one, a name of 60 characters, and slots the regex refuses:
\* one character, 61 characters, a capital first, an underscore first, a
\* star, the empty string, no string.
AttrCn == <<"c", "n">>
AttrBool == <<"o", "k">>
Attr60 == [k \in 1..60 |-> "a"]
ValidAttrs == {AttrCn, AttrBool, Attr60}
InvalidAttrs ==
  {<<"a">>, [k \in 1..61 |-> "a"], <<"C", "n">>, <<"_", "a", "b", "c">>, <<"c", "*">>,
   <<>>, NotAString}
Attrs == ValidAttrs \cup InvalidAttrs

\* The value slots: every string of at most MaxValueLen characters over the
\* five characters _escape replaces and two it leaves alone, and besides
\* TRUE, FALSE, true, strings of 255 and 256 characters, a string with a
\* line feed, the empty string and no string.
MaxValueLen == 3
ValueAlphabet == {"*", "(", ")", "\\", NUL, "a", "2"}
ValueStrings == UNION {[1..n -> ValueAlphabet] : n \in 1..MaxValueLen}
OtherValues ==
  {StrTRUE, StrFALSE, <<"t", "r", "u", "e">>, [k \in 1..255 |-> "a"],
   [k \in 1..256 |-> "a"], <<"a", "\n">>, <<>>, NotAString}
ShortValues == {v \in ValueStrings : Len(v) = 1} \cup OtherValues

ComparisonOps == {"equals", "beginswith", "endswith", "contains"}

\* The value lists of oneof, of at most MaxOperands values.
MaxOperands == 3
ListValues == {StrTRUE, <<"t", "r", "u", "e">>, <<"*">>}
ValueLists == UNION {[1..n -> ListValues] : n \in 0..MaxOperands}

Leaves ==
  {<<op, AttrCn, v>> : op \in ComparisonOps, v \in ValueStrings}
  \cup {<<op, a, v>> : op \in ComparisonOps, a \in Attrs, v \in ShortValues}
  \cup {<<"has", a>> : a \in Attrs}
  \cup {<<"oneof", a, vs>> : a \in Attrs, vs \in ValueLists}
  \cup {<<"true">>, <<"false">>, <<"true", AttrCn>>, <<"false", AttrCn>>,
        <<"has">>, <<"equals", AttrCn>>, <<"xor", AttrCn, <<"a">>>>}

\* The operands of the compound expressions of the model.
Operands ==
  {<<"equals", AttrCn, <<"(", "*">>>>,
   <<"equals", AttrBool, StrTRUE>>,
   <<"beginswith", AttrBool, StrTRUE>>,
   <<"has", <<"C", "n">>>>,
   <<"oneof", <<"_", "a", "b", "c">>, <<>>>>,
   <<"oneof", AttrBool, <<StrFALSE, <<"*">>>>>>}

Compounds1 ==
  {<<"not">>, <<"and">>, <<"or">>}
  \cup {<<"not", x>> : x \in Operands}
  \cup {<<"not", x, y>> : x \in Operands, y \in Operands}
  \cup UNION {{<<op>> \o xs : xs \in [1..n -> Operands]} :
                op \in {"and", "or"}, n \in 1..MaxOperands}

Compounds2 ==
  {<<"not", c>> : c \in Compounds1}
  \cup {<<op, c>> : op \in {"and", "or"}, c \in Compounds1}
  \cup {<<op, <<"has", AttrCn>>, c>> : op \in {"and", "or"}, c \in Compounds1}

Expressions == Leaves \cup Compounds1 \cup Compounds2

FlIdle ==
  /\ fl_expr = <<"true">>
  /\ fl_b = {}
  /\ fl_pc = "idle"
  /\ fl_out = <<>>

\* A compiler that stores the operand in place of an and, or an or, of one
\* operand.
Compile_Unwraps ==
  /\ fl_pc = "called"
  /\ fl_pc' = IF ldapfilter(fl_expr, fl_b).ok THEN "returned" ELSE "thrown"
  /\ fl_out' = ldapfilter(fl_expr, fl_b).str
  /\ fl_expr' = IF fl_expr[1] \in {"and", "or"} /\ Len(fl_expr) = 2 THEN fl_expr[2] ELSE fl_expr
  /\ UNCHANGED fl_b
  /\ UNCHANGED notFl

\* A compiler that takes no attribute for a boolean.
Compile_NoBooleans ==
  /\ fl_pc = "called"
  /\ fl_pc' = IF ldapfilter(fl_expr, {}).ok THEN "returned" ELSE "thrown"
  /\ fl_out' = ldapfilter(fl_expr, {}).str
  /\ UNCHANGED <<fl_expr, fl_b>>
  /\ UNCHANGED notFl

\* One call of ldapfilter.
Compile ==
  /\ fl_pc = "called"
  /\ fl_pc' = IF ldapfilter(fl_expr, fl_b).ok THEN "returned" ELSE "thrown"
  /\ fl_out' = ldapfilter(fl_expr, fl_b).str
  /\ UNCHANGED <<fl_expr, fl_b>>
  /\ UNCHANGED notFl

----------------------------------------------------------------------------
(* ldapfilter with the virtual attributes: the compiler that getObjects
   calls accepts _transitive_member and _transitive_memberOf in equals and
   oneof and writes them with the matching rule of the directory; it is the
   compiler above in every other case. *)

TransitiveMember == <<"_", "t", "r", "a", "n", "s", "i", "t", "i", "v", "e", "_", "m", "e", "m", "b", "e", "r">>
TransitiveMemberOf == <<"_", "t", "r", "a", "n", "s", "i", "t", "i", "v", "e", "_", "m", "e", "m", "b", "e", "r", "O", "f">>
MatchingRule == <<":", "1", ".", "2", ".", "8", "4", "0", ".", "1", "1", "3", "5", "5", "6", ".", "1", ".", "4", ".", "1", "9", "4", "1", ":">>

\* The virtual attribute written as an ordinary attribute name.
InChainAttribute_Plain(a) ==
  IF a = TransitiveMember THEN <<"m", "e", "m", "b", "e", "r">>
  ELSE <<"m", "e", "m", "b", "e", "r", "O", "f">>

\* The attribute text of a virtual attribute.
InChainAttribute(a) ==
  (IF a = TransitiveMember THEN <<"m", "e", "m", "b", "e", "r">>
   ELSE <<"m", "e", "m", "b", "e", "r", "O", "f">>) \o MatchingRule

RECURSIVE ldapfilterInChain(_, _)
ldapfilterInChain(i, b) ==
  LET l == Len(i)
      op == i[1]
      operands == [k \in 1..(l - 1) |-> ldapfilterInChain(i[k + 1], b)]
  IN IF l = 0 THEN Thrown
     ELSE CASE op \in {"and", "or"} /\ l = 2 -> operands[1]
            [] op \in {"and", "or"} /\ l > 2 ->
                 IF \E k \in 1..(l - 1) : ~operands[k].ok THEN Thrown
                 ELSE Returned(<<"(", IF op = "and" THEN "&" ELSE "|">>
                               \o Join([k \in 1..(l - 1) |-> operands[k].str]) \o <<")">>)
            [] op = "not" /\ l = 2 ->
                 IF ~operands[1].ok THEN Thrown
                 ELSE Returned(<<"(", "!">> \o operands[1].str \o <<")">>)
            [] op = "equals" /\ l = 3 /\ i[2] \in {TransitiveMember, TransitiveMemberOf} ->
                 IF ~synthvalue(i[3]).ok THEN Thrown
                 ELSE Returned(<<"(">> \o InChainAttribute(i[2]) \o <<"=">>
                               \o synthvalue(i[3]).str \o <<")">>)
            [] op = "oneof" /\ l = 3 /\ Len(i[3]) > 0 ->
                 ldapfilterInChain(<<"or">> \o [k \in 1..Len(i[3]) |-> <<"equals", i[2], i[3][k]>>], b)
            [] OTHER -> ldapfilter(i, b)

\* The expressions of the model: equals and oneof on the two virtual
\* attributes, on _abc and on cn, with the values of the tests, a value
\* with characters to escape and the empty value; has and contains on _abc
\* and cn; and these under and, or and not.
UnderscoreAbc == <<"_", "a", "b", "c">>
UserDN == <<"u", "s", "e", "r", "D", "N">>
GroupDN1 == <<"g", "r", "o", "u", "p", "D", "N", "1">>
GroupDN2 == <<"g", "r", "o", "u", "p", "D", "N", "2">>
InChainAttrs == {TransitiveMember, TransitiveMemberOf, UnderscoreAbc, AttrCn}
InChainValues == {UserDN, GroupDN1, GroupDN2, <<"(", "*">>, <<>>}
InChainLists == UNION {[1..n -> InChainValues] : n \in 0..2}
InChainLeaves ==
  {<<"equals", a, v>> : a \in InChainAttrs, v \in InChainValues}
  \cup {<<"oneof", a, vs>> : a \in InChainAttrs, vs \in InChainLists}
  \cup {<<op, a, UserDN>> : op \in {"has", "contains"}, a \in {UnderscoreAbc, AttrCn}}
InChainOperands ==
  {<<"equals", TransitiveMember, UserDN>>,
   <<"oneof", TransitiveMemberOf, <<GroupDN1, GroupDN2>>>>,
   <<"equals", UnderscoreAbc, UserDN>>,
   <<"has", AttrCn>>}
InChainExpressions ==
  InChainLeaves
  \cup {<<"not", x>> : x \in InChainOperands}
  \cup {<<op, x, y>> : op \in {"and", "or"}, x \in InChainOperands, y \in InChainOperands}

\* One call of the compiler getObjects uses.
CompileInChain ==
  /\ fl_pc = "called"
  /\ fl_pc' = IF ldapfilterInChain(fl_expr, fl_b).ok THEN "returned" ELSE "thrown"
  /\ fl_out' = ldapfilterInChain(fl_expr, fl_b).str
  /\ UNCHANGED <<fl_expr, fl_b>>
  /\ UNCHANGED notFl

----------------------------------------------------------------------------
(* The rewriter on a whole expression (part_001:589-624).  Expressions are
   tuples as in ldapfilter, with attribute names and DNs as single strings
   and the value list of oneof as the set of its DNs. *)

\* rewrite_filter_for_transitive_membership_Helper_transitiveGroupLookup:
\* the loop, with ret and toLookup as its state.
RECURSIVE rewrite_filter_for_transitive_membership_Helper_transitiveGroupLookup(_, _, _)
rewrite_filter_for_transitive_membership_Helper_transitiveGroupLookup(a, lookup, acc) ==
  IF lookup = {} THEN acc
  ELSE LET nextLevelGroups == GroupSearch(a, lookup)
           union == acc \cup lookup
       IN rewrite_filter_for_transitive_membership_Helper_transitiveGroupLookup(
            a, nextLevelGroups \ union, union)

RECURSIVE rewrite_filter_for_transitive_membership_Helper(_)
rewrite_filter_for_transitive_membership_Helper(filter) ==
  LET op == filter[1]
  IN IF op \in {"and", "or", "not"}
     THEN <<op>> \o [k \in 1..(Len(filter) - 1) |->
                       rewrite_filter_for_transitive_membership_Helper(filter[k + 1])]
     ELSE IF op \in {"equals", "oneof"} /\ filter[2] \in VirtualAttributes
     THEN LET attrib == AttribOf(filter[2])
              arrayValue == IF op = "oneof" THEN filter[3] ELSE {filter[3]}
          IN <<"oneof", attrib,
               rewrite_filter_for_transitive_membership_Helper_transitiveGroupLookup(
                 attrib, arrayValue, {})>>
     ELSE filter

\* The where expressions of the model: leaves on the virtual attributes and
\* on real ones, and these under not, and and or, two levels deep.
TreeLeaves ==
  {<<"equals", "_transitive_member", "u1">>,
   <<"equals", "_transitive_memberOf", "g1">>,
   <<"oneof", "_transitive_member", {"u1", "g2"}>>,
   <<"oneof", "_transitive_memberOf", {}>>,
   <<"equals", "cn", "u1">>,
   <<"oneof", "member", {"g1"}>>,
   <<"has", "cn">>,
   <<"contains", "cn", "u1">>}
Trees1 ==
  {<<"not", x>> : x \in TreeLeaves}
  \cup {<<op, x>> : op \in {"and", "or"}, x \in TreeLeaves}
  \cup {<<op, x, y>> : op \in {"and", "or"}, x \in TreeLeaves, y \in TreeLeaves}
Trees2 ==
  {<<"not", c>> : c \in Trees1}
  \cup {<<"and", <<"equals", "_transitive_memberOf", "g1">>, c, <<"has", "cn">>>> : c \in Trees1}
Trees == TreeLeaves \cup Trees1 \cup Trees2

\* A rewriter that returns the operands of the outermost and, or, not in
\* the opposite order.
RewriteTree_Reversed ==
  /\ tl_pc = "called"
  /\ clientSideTransitiveSearch
  /\ tl_pc' = "rewritten"
  /\ LET r == rewrite_filter_for_transitive_membership_Helper(where)
     IN filterExpression' =
          IF r[1] \in {"and", "or", "not"}
          THEN <<r[1]>> \o [k \in 1..(Len(r) - 1) |-> r[Len(r) + 1 - k]]
          ELSE r
  /\ UNCHANGED <<member, baseGroups, where, tl_attribute, toLookup, ret, searches, found>>
  /\ UNCHANGED notTl

\* rewrite_filter_for_transitive_membership on a valid expression, its
\* lookups answered by the directory.
RewriteTree ==
  /\ tl_pc = "called"
  /\ clientSideTransitiveSearch
  /\ tl_pc' = "rewritten"
  /\ filterExpression' = rewrite_filter_for_transitive_membership_Helper(where)
  /\ UNCHANGED <<member, baseGroups, where, tl_attribute, toLookup, ret, searches, found>>
  /\ UNCHANGED notTl

----------------------------------------------------------------------------
(* Specifications *)

\* No search is running in the driver.
RsIdle ==
  /\ buffer = <<>>
  /\ should_pause = FALSE
  /\ buffer_callback = FALSE
  /\ resume_callback = 0
  /\ pc = "idle"
  /\ awaiting = 0
  /\ tEnded = FALSE
  /\ tLast = FALSE
  /\ inPage = 0
  /\ nEvents = 0
  /\ nEntries = 0
  /\ cbInvoked = {}
  /\ yielded = <<>>
  /\ lastDeq = NoEvent
  /\ withheld = {}
  /\ overflowed = FALSE
  /\ assertFailed = FALSE

\* No getObjects call has started.
GoIdle ==
  /\ go_pc = "idle"
  /\ bound = FALSE
  /\ bindCalls = 0
  /\ failUnbinds = 0
  /\ endCalls = 0
  /\ completion = "normal"
  /\ lookups = 0
  /\ nYielded = 0
  /\ searchesDone = 0
  /\ completions = {}

\* A handler after construction, with no overrideSingleValued, and no
\* entry in process.
PrIdle ==
  /\ initialized = FALSE
  /\ dictSingleValued = Constructed([a \in Names |-> "none"])
  /\ booleanAttributes = {}
  /\ extractionFormatters = NoFormatters
  /\ select = {"cn"}
  /\ waitForInitialization = TRUE
  /\ pr_pc = "called"
  /\ pr_entry = [k \in Keys |-> Absent]
  /\ pr_ret = <<>>

\* No call of the throttled initialize yet.
InIdle ==
  /\ now = 0
  /\ lastCallTime = Absent
  /\ lastInvokeTime = 0
  /\ result = 0
  /\ attempts = <<>>
  /\ callers = [c \in 1..MaxCalls |-> [pc |-> "idle", kind |-> "none", awaits |-> 0]]

\* One rawSearch call against a transport of either kind.
Init ==
  /\ RsIdle
  /\ transport \in {"paged", "free"}
  /\ GoIdle
  /\ connection_is_external = FALSE
  /\ client = "none"
  /\ where_valid = TRUE
  /\ clientSideTransitiveSearch = FALSE
  /\ PrIdle
  /\ InIdle
  /\ RcIdle
  /\ TlIdle
  /\ SlIdle
  /\ OoIdle
  /\ FlIdle
  /\ schema = SchemaRows

Next ==
  \/ RawSearchStart
  \/ LoopStep
  \/ LoopWait
  \/ Resume
  \/ ConsumerNext
  \/ ConsumerReturn
  \/ EmitEntry
  \/ EmitReferral
  \/ EmitPage
  \/ EmitLastPage
  \/ EmitEnd
  \/ EmitError

Spec == Init /\ [][Next]_vars

\* One rawSearch call against a paged transport that answers every resume: a
\* search result of at most MaxEvents events, the page event of the last
\* page and the end event included, and a consumer that asks for every
\* entry.
InitPaged ==
  /\ Init
  /\ transport = "paged"

\* An entry of a page that is not the last.
SendEntry ==
  /\ nEvents < MaxEvents - 2
  /\ EmitEntry

\* The page event of a page that is not the last.
SendPage ==
  /\ nEvents < MaxEvents - 2
  /\ EmitPage

\* The page event of the last page.
SendLastPage ==
  /\ nEvents < MaxEvents - 1
  /\ EmitLastPage

Generator == RawSearchStart \/ LoopStep \/ LoopWait \/ Resume

Transport == SendEntry \/ SendPage \/ SendLastPage \/ EmitEnd

NextPaged ==
  \/ RawSearchStart
  \/ LoopStep
  \/ LoopWait
  \/ Resume
  \/ ConsumerNext
  \/ SendEntry
  \/ SendPage
  \/ SendLastPage
  \/ EmitEnd

SpecPaged == InitPaged /\ [][NextPaged]_vars

\* The generator runs whenever it can (it is suspended only at its yield and
\* at its await), the consumer asks for the next entry after each one, and
\* the transport sends what it may send.
SpecPagedFair ==
  /\ SpecPaged
  /\ WF_vars(Generator)
  /\ WF_vars(ConsumerNext)
  /\ WF_vars(Transport)

\* getObjects calls, with a connection of their own or on a connection the
\* caller supplies (and has bound with newConnection).
InitConn ==
  /\ RsIdle
  /\ transport = "paged"
  /\ GoIdle
  /\ connection_is_external \in BOOLEAN
  /\ client = IF connection_is_external THEN "bound" ELSE "none"
  /\ where_valid \in BOOLEAN
  /\ clientSideTransitiveSearch \in BOOLEAN
  /\ PrIdle
  /\ InIdle
  /\ RcIdle
  /\ TlIdle
  /\ SlIdle
  /\ OoIdle
  /\ FlIdle
  /\ schema = SchemaRows

NextConn ==
  \/ GetObjectsStart
  \/ BindSucceeds
  \/ BindFails
  \/ RewriteFilter
  \/ LookupEnds
  \/ LookupFails
  \/ RawSearchBegins
  \/ StreamEntry
  \/ StreamFails
  \/ StreamEnds
  \/ ProcessStartsRange
  \/ RangeSearchEnds
  \/ ProcessReturns
  \/ ProcessThrows
  \/ GoConsumerNext
  \/ GoConsumerReturn
  \/ Finally
  \/ CallerSearchesAgain

SpecConn == InitConn /\ [][NextConn]_vars

\* One entry through process, for every select list, schema map and entry.
\* A successful bootstrap leaves member multi-valued (part_001:228).
InitProcess ==
  /\ RsIdle
  /\ transport = "paged"
  /\ GoIdle
  /\ connection_is_external = FALSE
  /\ client = "none"
  /\ where_valid = TRUE
  /\ clientSideTransitiveSearch = FALSE
  /\ InIdle
  /\ RcIdle
  /\ TlIdle
  /\ SlIdle
  /\ OoIdle
  /\ FlIdle
  /\ initialized \in BOOLEAN
  /\ \E f \in [Names -> {"single", "multi", "none"}] : dictSingleValued = Constructed(f)
  /\ booleanAttributes = {}
  /\ extractionFormatters = NoFormatters
  /\ schema = SchemaRows
  /\ initialized => dictSingleValued["member"] = "multi"
  /\ select \in (SUBSET Names) \ {{}}
  /\ waitForInitialization \in BOOLEAN
  /\ pr_pc = "called"
  /\ pr_entry = [k \in Keys |-> Absent]
  /\ pr_ret = <<>>

NextProcess ==
  \/ CheckSelect
  \/ ProcessEntry

SpecProcess == InitProcess /\ [][NextProcess]_vars

\* Calls of getObjects and initialize on a fresh handler, over time.
InitInit ==
  /\ RsIdle
  /\ transport = "paged"
  /\ GoIdle
  /\ connection_is_external = FALSE
  /\ client = "none"
  /\ where_valid = TRUE
  /\ clientSideTransitiveSearch = FALSE
  /\ PrIdle
  /\ InIdle
  /\ RcIdle
  /\ TlIdle
  /\ SlIdle
  /\ OoIdle
  /\ FlIdle
  /\ schema = SchemaRows

NextInit ==
  \/ Tick
  \/ \E c \in 1..MaxCalls : CallGetObjects(c)
  \/ \E c \in 1..MaxCalls : CallInitialize(c)
  \/ \E c \in 1..MaxCalls : CallerResumes(c)
  \/ \E k \in 1..MaxAttempts : AttemptRow(k)
  \/ \E k \in 1..MaxAttempts : AttemptFails(k)
  \/ \E k \in 1..MaxAttempts : AttemptEnds(k)

SpecInit == InitInit /\ [][NextInit]_vars

\* Calls of initialize on a fresh handler, for every schema of Schemas and
\* with or without member in overrideSingleValued.
InitBoot ==
  /\ RsIdle
  /\ transport = "paged"
  /\ GoIdle
  /\ connection_is_external = FALSE
  /\ client = "none"
  /\ where_valid = TRUE
  /\ clientSideTransitiveSearch = FALSE
  /\ InIdle
  /\ RcIdle
  /\ TlIdle
  /\ SlIdle
  /\ OoIdle
  /\ FlIdle
  /\ initialized = FALSE
  /\ \E o \in {"none", "single", "multi"} :
       dictSingleValued = Constructed([a \in Names |-> IF a = "member" THEN o ELSE "none"])
  /\ booleanAttributes = {}
  /\ extractionFormatters = NoFormatters
  /\ schema \in Schemas
  /\ select = {"cn"}
  /\ waitForInitialization = TRUE
  /\ pr_pc = "called"
  /\ pr_entry = [k \in Keys |-> Absent]
  /\ pr_ret = <<>>

NextBoot ==
  \/ Tick
  \/ \E c \in 1..MaxCalls : CallInitialize(c)
  \/ \E k \in 1..MaxAttempts : AttemptRow(k)
  \/ \E k \in 1..MaxAttempts : AttemptFails(k)
  \/ \E k \in 1..MaxAttempts : AttemptEnds(k)

SpecBoot == InitBoot /\ [][NextBoot]_vars

\* One call of completeValueRange by process, for every number of values.
InitRange ==
  /\ RsIdle
  /\ transport = "paged"
  /\ GoIdle
  /\ connection_is_external = FALSE
  /\ client = "none"
  /\ where_valid = TRUE
  /\ clientSideTransitiveSearch = FALSE
  /\ PrIdle
  /\ InIdle
  /\ schema = SchemaRows
  /\ rc_pc = "idle"
  /\ rc_N \in 0..MaxN
  /\ initValues = <<>>
  /\ initRawValues = <<>>
  /\ offset = 0
  /\ rounds = 0
  /\ response = NoResponse
  /\ data_values = <<>>
  /\ data_rawValues = <<>>
  /\ TlIdle
  /\ SlIdle
  /\ OoIdle
  /\ FlIdle

\* The server answers every request with the values it holds.
NextRange ==
  \/ RangeRequest
  \/ RangeResponse

SpecRange == InitRange /\ [][NextRange]_vars

\* Every subsearch of completeValueRange returns.
SpecRangeFair == SpecRange /\ WF_vars(NextRange)

\* The subsearch may return something else.
NextRangeGarbled ==
  \/ RangeRequest
  \/ RangeResponse
  \/ RangeGarbledResponse

SpecRangeGarbled == InitRange /\ [][NextRangeGarbled]_vars

\* One search whose filter names a virtual attribute, for every directory
\* of at most MaxEdges memberships, every base DN that holds all groups or
\* all but one, and both settings of clientSideTransitiveSearch.
InitLookup ==
  /\ RsIdle
  /\ transport = "paged"
  /\ GoIdle
  /\ connection_is_external = FALSE
  /\ client = "none"
  /\ where_valid = TRUE
  /\ clientSideTransitiveSearch \in BOOLEAN
  /\ PrIdle
  /\ InIdle
  /\ schema = SchemaRows
  /\ RcIdle
  /\ SlIdle
  /\ OoIdle
  /\ FlIdle
  /\ member \in Directories
  /\ baseGroups \in {Groups} \cup {Groups \ {g} : g \in Groups}
  /\ where \in {f \in Filters : WellFormed(f)}
  /\ tl_pc = "called"
  /\ tl_attribute = "member"
  /\ toLookup = {}
  /\ ret = {}
  /\ searches = <<>>
  /\ filterExpression = NoFilter
  /\ found = {}

NextLookup ==
  \/ RewriteCalled
  \/ RewriteSkipped
  \/ LookupIteration
  \/ LookupReturns
  \/ OuterSearch

SpecLookup == InitLookup /\ [][NextLookup]_vars

\* Every search the lookup issues returns.
SpecLookupFair == SpecLookup /\ WF_vars(NextLookup)

\* One getObjects call for every select option, before and after a
\* bootstrap over SchemaRows, and one entry of its search.
InitSelect ==
  /\ RsIdle
  /\ transport = "paged"
  /\ GoIdle
  /\ connection_is_external = FALSE
  /\ client = "none"
  /\ where_valid = TRUE
  /\ clientSideTransitiveSearch = FALSE
  /\ InIdle
  /\ RcIdle
  /\ TlIdle
  /\ OoIdle
  /\ FlIdle
  /\ initialized \in BOOLEAN
  /\ dictSingleValued = IF initialized THEN Bootstrapped
                        ELSE Constructed([a \in Names |-> "none"])
  /\ booleanAttributes = {}
  /\ extractionFormatters = NoFormatters
  /\ schema = SchemaRows
  /\ select_all \in BOOLEAN
  /\ selectList \in SelectLists
  /\ select_all => selectList = <<>>
  /\ select = Selected(select_all, selectList)
  /\ waitForInitialization \in BOOLEAN
  /\ sl_pc = "called"
  /\ attributes = <<>>
  /\ pr_pc = "called"
  /\ pr_entry = [k \in Keys |-> Absent]
  /\ pr_ret = <<>>

NextSelect ==
  \/ ValidateSelect
  \/ sl_pc = "validated" /\ CheckSelect
  \/ ComputeAttributes
  \/ sl_pc = "searching" /\ ProcessEntry

SpecSelect == InitSelect /\ [][NextSelect]_vars

\* One getOneObject call for every stream of at most MaxRecords records
\* that ends or throws.
InitOne ==
  /\ RsIdle
  /\ transport = "paged"
  /\ GoIdle
  /\ connection_is_external = FALSE
  /\ client = "none"
  /\ where_valid = TRUE
  /\ clientSideTransitiveSearch = FALSE
  /\ PrIdle
  /\ InIdle
  /\ schema = SchemaRows
  /\ RcIdle
  /\ TlIdle
  /\ SlIdle
  /\ FlIdle
  /\ oo_stream \in Streams
  /\ oo_ending \in {"end", "throw"}
  /\ oo_pc = "running"
  /\ oo_consumed = 0
  /\ searchresult = <<>>
  /\ oo_value = NoRecord
  /\ oo_closed = FALSE

NextOne ==
  \/ RecordYielded
  \/ OneStreamEnds
  \/ OneStreamThrows

SpecOne == InitOne /\ [][NextOne]_vars

\* One ldapfilter call for every expression of the model, with and without
\* a boolean attribute.
InitFilter ==
  /\ RsIdle
  /\ transport = "paged"
  /\ GoIdle
  /\ connection_is_external = FALSE
  /\ client = "none"
  /\ where_valid = TRUE
  /\ clientSideTransitiveSearch = FALSE
  /\ PrIdle
  /\ InIdle
  /\ schema = SchemaRows
  /\ RcIdle
  /\ TlIdle
  /\ SlIdle
  /\ OoIdle
  /\ fl_expr \in Expressions
  /\ fl_b \in {{}, {AttrBool}}
  /\ fl_pc = "called"
  /\ fl_out = <<>>

NextFilter == Compile

SpecFilter == InitFilter /\ [][NextFilter]_vars

\* The calls that are handed a filter expression: ldapfilter, for every leaf
\* and every expression one level deep, with and without a boolean
\* attribute, and the rewriter, for every directory, with all groups under
\* the base DN.
InitFrame ==
  \/ InitFilter /\ fl_expr \in Leaves \cup Compounds1
  \/ InitLookup /\ baseGroups = Groups

NextFrame ==
  \/ Compile
  \/ RewriteCalled
  \/ RewriteSkipped
  \/ LookupIteration
  \/ LookupReturns
  \/ OuterSearch

SpecFrame == InitFrame /\ [][NextFrame]_vars

\* One call of the compiler with the virtual attributes, for every
\* expression of InChainExpressions.
InitInChain ==
  /\ RsIdle
  /\ transport = "paged"
  /\ GoIdle
  /\ connection_is_external = FALSE
  /\ client = "none"
  /\ where_valid = TRUE
  /\ clientSideTransitiveSearch = FALSE
  /\ PrIdle
  /\ InIdle
  /\ schema = SchemaRows
  /\ RcIdle
  /\ TlIdle
  /\ SlIdle
  /\ OoIdle
  /\ fl_expr \in InChainExpressions
  /\ fl_b = {}
  /\ fl_pc = "called"
  /\ fl_out = <<>>

NextInChain == CompileInChain

SpecInChain == InitInChain /\ [][NextInChain]_vars

\* One rewrite of every expression of Trees, over every directory of at
\* most two memberships, all groups under the base DN.
InitRewrite ==
  /\ RsIdle
  /\ transport = "paged"
  /\ GoIdle
  /\ connection_is_external = FALSE
  /\ client = "none"
  /\ where_valid = TRUE
  /\ clientSideTransitiveSearch = TRUE
  /\ PrIdle
  /\ InIdle
  /\ schema = SchemaRows
  /\ RcIdle
  /\ SlIdle
  /\ OoIdle
  /\ FlIdle
  /\ member \in {m \in Directories : Cardinality({e \in Groups \X DNs : e[2] \in m[e[1]]}) <= 2}
  /\ baseGroups = Groups
  /\ where \in Trees
  /\ tl_pc = "called"
  /\ tl_attribute = "member"
  /\ toLookup = {}
  /\ ret = {}
  /\ searches = <<>>
  /\ filterExpression = NoFilter
  /\ found = {}

NextRewrite == RewriteTree

SpecRewrite == InitRewrite /\ [][NextRewrite]_vars

----------------------------------------------------------------------------
(* The search driver: properties *)

RECURSIVE EntriesOf(_)
\* The ordinals of the entries queued in b, in queue order.
EntriesOf(b) ==
  IF b = <<>> THEN <<>>
  ELSE IF Head(b).op = "entry" THEN <<Head(b).n>> \o EntriesOf(Tail(b))
  ELSE EntriesOf(Tail(b))

\* C4: rawSearch yields the entries in the order in which the transport
\* emitted them, none dropped and none twice: the entries yielded so far,
\* followed by the entries still queued, are the entries emitted, in order;
\* and when the stream of a paged transport ends normally, every entry was
\* yielded.
C4_FifoOrder ==
  /\ yielded \o EntriesOf(buffer) = [i \in 1..nEntries |-> i]
  /\ (pc = "done" /\ transport = "paged") => Len(yielded) = nEntries

\* Entries were yielded while later ones, emitted meanwhile, were queued.
C4_Witness ==
  /\ Len(yielded) >= 2
  /\ Len(EntriesOf(buffer)) >= 2
  /\ Len(buffer) > Len(EntriesOf(buffer))

DequeuesPage ==
  /\ pc = "loop"
  /\ buffer # <<>>
  /\ Head(buffer).op = "page" /\ Head(buffer).callback
  /\ resume_callback = 0
  /\ buffer' = Tail(buffer)

\* C6: if the depth exceeded the pause mark at an enqueue and bufferctl has
\* not run below the resume mark since, the callback of the next page event
\* dequeued is stored and not invoked; if the pause flag is not set, the
\* callback is invoked when the page event is dequeued.
C6_WithholdWhenPaused ==
  [][DequeuesPage =>
       /\ overflowed => /\ resume_callback' = Head(buffer).seq
                        /\ Head(buffer).seq \notin cbInvoked'
       /\ ~should_pause => /\ Head(buffer).seq \in cbInvoked'
                           /\ resume_callback' = 0]_vars

\* A callback is withheld after an overflow, and an earlier one was invoked
\* at its dequeue.
C6_Witness ==
  /\ overflowed
  /\ resume_callback # 0
  /\ cbInvoked \ withheld # {}

\* C7: no step dequeues an item while a resume callback is stored and
\* the depth is below the resume mark.
C7_NoDequeueWhileWithheld ==
  [][~(/\ resume_callback # 0
       /\ Len(buffer) < buffer_resume_at_length
       /\ pc = "loop"
       /\ buffer # <<>>
       /\ buffer' = Tail(buffer))]_vars

\* The resume callbacks in the driver's hands: those of the queued page
\* events and the stored one.
Outstanding ==
  {buffer[i].seq : i \in {j \in 1..Len(buffer) : buffer[j].op = "page" /\ buffer[j].callback}}
    \cup ({resume_callback} \ {0})

\* C8: with the paged transport at most one resume callback is outstanding,
\* no callback is stored when a page event is dequeued, and the assertion of
\* the page case never fails.
C8_OneOutstanding ==
  transport = "paged" =>
    /\ Cardinality(Outstanding) <= 1
    /\ (pc = "loop" /\ buffer # <<>> /\ Head(buffer).op = "page") => resume_callback = 0
    /\ ~assertFailed

\* A second page event arrives after the callback of the first was withheld
\* and then invoked.
C8_Witness ==
  /\ transport = "paged"
  /\ withheld # {}
  /\ withheld \subseteq cbInvoked
  /\ pc = "loop" /\ buffer # <<>> /\ Head(buffer).op = "page" /\ Head(buffer).callback

GoodEnd(e) == e.op = "done" /\ e.status = 0 /\ e.errorMessage = ""
Aborting(e) == e.op \in {"err", "referral"} \/ (e.op = "done" /\ ~GoodEnd(e))

\* C9: the stream ends normally only on a dequeued end event with status 0
\* and an empty error message; a dequeued error, referral or failing end
\* event aborts it, and after an abort nothing is dequeued or yielded.
C9_EndOnlyOnSuccess ==
  /\ [](pc = "done" => GoodEnd(lastDeq))
  /\ [](Aborting(lastDeq) => pc = "failed")
  /\ [][pc = "failed" => (pc' = "failed" /\ yielded' = yielded /\ lastDeq' = lastDeq)]_vars

\* An end event with status 0 and a non-empty message has aborted the
\* stream while an entry was still queued behind it.
C9_Witness ==
  /\ pc = "failed"
  /\ lastDeq.op = "done" /\ lastDeq.status = 0 /\ lastDeq.errorMessage # ""
  /\ yielded # <<>>
  /\ EntriesOf(buffer) # <<>>

----------------------------------------------------------------------------
(* getObjects: properties *)

\* C1: a getObjects call without a caller-supplied connection calls
\* connection.end() exactly once before it finishes if newConnection has
\* succeeded, however the try block is left, and never otherwise; if bind
\* fails, the client is unbound once before the call finishes with the error.
C1_EndExactlyOnce ==
  ~connection_is_external =>
    /\ endCalls <= 1
    /\ endCalls = 1 => (bound /\ go_pc = "finished")
    /\ (go_pc = "finished" /\ bound) => (endCalls = 1 /\ client = "unbound")
    /\ (go_pc \in {"finally", "finished"} /\ bindCalls = 1 /\ ~bound) =>
         (failUnbinds = 1 /\ client = "unbound" /\ completion = "throw")

\* The consumer has abandoned a search that had yielded records, and the
\* connection was ended.
C1_Witness ==
  /\ ~connection_is_external
  /\ go_pc = "finished"
  /\ completion = "return"
  /\ nYielded >= 1
  /\ endCalls = 1

\* C2: on a connection the caller supplies getObjects never binds and never
\* calls end(): the connection stays bound through every search, however
\* each of them ends.
C2_ExternalUntouched ==
  connection_is_external =>
    /\ bindCalls = 0
    /\ failUnbinds = 0
    /\ endCalls = 0
    /\ client = "bound"

\* After an abandoned search and a failed one the caller's next search
\* yields a record on the same connection.
C2_Witness ==
  /\ connection_is_external
  /\ {"return", "throw"} \subseteq completions
  /\ searchesDone >= 2
  /\ go_pc = "yielded"
  /\ client = "bound"

----------------------------------------------------------------------------
(* process: properties *)

\* The entry breaks the shape of the result: an unselected attribute other
\* than dn, controls and distinguishedName, an array for a selected
\* single-valued attribute, or a selected attribute of unknown cardinality.
Breaks(e) ==
  \E a \in Names :
    /\ e[a] # Absent
    /\ \/ a \notin select /\ a # "distinguishedName"
       \/ a \in select /\ dictSingleValued[a] = "single" /\ IsArray(e[a])
       \/ a \in select /\ dictSingleValued[a] = "none"

\* C3: every key of a yielded record is in select; its value is a list when
\* the schema map says multi-valued and a scalar when it says single-valued;
\* an entry that breaks this is not yielded: the stream fails.
C3_RecordShape ==
  /\ pr_pc = "yielded" =>
       /\ DOMAIN pr_ret \subseteq select
       /\ \A a \in DOMAIN pr_ret :
            /\ dictSingleValued[a] = "multi" => pr_ret[a] = "list"
            /\ dictSingleValued[a] = "single" => pr_ret[a] = "scalar"
            /\ dictSingleValued[a] # "none"
  /\ (pr_pc \in {"yielded", "failed"} /\ Breaks(pr_entry)) => pr_pc = "failed"

\* A record with a scalar cn and a member list made of one unwrapped value,
\* from an entry that also carried the unselected distinguishedName.
C3_Witness ==
  /\ pr_pc = "yielded"
  /\ select = {"cn", "member"}
  /\ pr_entry["member"] = 1 /\ pr_entry["distinguishedName"] = 1
  /\ DOMAIN pr_ret = {"cn", "member"}
  /\ pr_ret["cn"] = "scalar" /\ pr_ret["member"] = "list"

----------------------------------------------------------------------------
(* The throttled initialize: properties *)

\* C10: at most one bootstrap attempt is in flight at any time, also when an
\* attempt lasts longer than the throttle window.
C10_OneAttemptInFlight == Cardinality(Pending) <= 1

\* C11: bootstrap attempts start at least initialize_throttle_delay apart:
\* a call of initialize made sooner after the start of the last attempt
\* starts no schema search, however many calls find initialized false.
C11_OneAttemptPerWindow ==
  \A j \in 1..Len(attempts) : \A k \in 1..(j - 1) :
    attempts[j].started - attempts[k].started >= initialize_throttle_delay

\* Two calls inside one window, the second some time after the first, wait
\* for the one attempt started.
C11_Witness ==
  /\ Len(attempts) = 1
  /\ now > attempts[1].started
  /\ \E c, d \in 1..MaxCalls :
       /\ c # d
       /\ callers[c].awaits = 1 /\ callers[d].awaits = 1
       /\ callers[c].kind = "getObjects" /\ callers[d].kind = "getObjects"

\* C12: a getObjects call with waitForInitialization true goes on to open
\* its connection and to search only while initialized is true, and a call
\* that has failed on the bootstrap never got there; the first call on a
\* fresh handler starts the bootstrap, and a call that has got past it finds
\* initialized true.
C12_SearchOnlyWhenInitialized ==
  /\ \A c \in 1..MaxCalls :
       (callers[c].kind = "getObjects" /\ callers[c].pc = "searching") => initialized
  /\ (\E c \in 1..MaxCalls : callers[c].pc # "idle") => attempts # <<>>
  /\ \A c \in 1..MaxCalls :
       (callers[c].kind = "getObjects" /\ callers[c].pc = "failed") =>
         /\ callers[c].awaits # 0
         /\ attempts[callers[c].awaits].state = "rejected"

\* The call that started the first attempt has failed with it; a later call
\* has waited for the second attempt and gone on to its search.
C12_Witness ==
  \E c, d \in 1..MaxCalls :
    /\ callers[c].kind = "getObjects" /\ callers[c].pc = "failed" /\ callers[c].awaits = 1
    /\ callers[d].kind = "getObjects" /\ callers[d].pc = "searching" /\ callers[d].awaits = 2

\* C13: while initialized is true the schema map has member multi-valued
\* and none of the attributes of NeverBoolean is in the boolean-attribute
\* set; initialized becomes true only in the step in which an attempt that
\* has read every row of the schema ends, and it never becomes false.
C13_InitializedMeansChecked ==
  /\ [](initialized =>
          /\ dictSingleValued["member"] = "multi"
          /\ booleanAttributes \cap NeverBoolean = {})
  /\ [][(~initialized /\ initialized') =>
          \E k \in Pending : /\ attempts[k].pos = Len(schema)
                             /\ attempts'[k].state = "resolved"]_vars
  /\ [][initialized => initialized']_vars

\* The handler is initialized on a schema with a boolean attribute, after an
\* earlier attempt was rejected.
C13_Witness ==
  /\ initialized
  /\ booleanAttributes # {}
  /\ Len(attempts) = 2
  /\ attempts[1].state = "rejected"
  /\ attempts[2].state = "resolved"

\* C14: once initialized is true no step changes the schema map, the
\* boolean-attribute set or the decoder table; they change only in a step
\* of a bootstrap attempt that reads a row; and an entry of the schema map,
\* once created, is never removed or changed.
C14_SchemaMapFrozen ==
  [][/\ initialized => UNCHANGED <<dictSingleValued, booleanAttributes, extractionFormatters>>
     /\ <<dictSingleValued, booleanAttributes, extractionFormatters>>' #
          <<dictSingleValued, booleanAttributes, extractionFormatters>> =>
          \E k \in Pending : attempts'[k].pos = attempts[k].pos + 1
     /\ \A a \in AllNames :
          dictSingleValued[a] # "none" => dictSingleValued'[a] = dictSingleValued[a]]_vars

\* A further call of initialize has read rows of the schema after
\* initialized became true.
C14_Witness ==
  /\ initialized
  /\ \E k \in Pending : attempts[k].pos >= 2

\* C15: the list completeValueRange hands to process holds every value of
\* the attribute once, in range-index order, and so does the list of raw
\* values, after any number of rounds.
C15_AllValuesInOrder ==
  rc_pc = "done" =>
    /\ data_values = [i \in 1..rc_N |-> DirValue(i)]
    /\ data_rawValues = [i \in 1..rc_N |-> DirRawValue(i)]

\* In a round after the first, one of the first OVERLAP values of the
\* reversed chunk e differs from the value OVERLAP places before the end of
\* the accumulated list, decoded or raw.
OverlapMismatch(e) ==
  /\ rounds >= 2
  /\ \E j \in 1..Min(OVERLAP, Len(e.vals)) :
       \/ Reverse(e.vals)[j] # initValues[Len(initValues) - OVERLAP + j]
       \/ Reverse(e.rawvals)[j] # initRawValues[Len(initRawValues) - OVERLAP + j]

\* C16: a round after the first requests the range that starts OVERLAP
\* values before the end of the accumulated list; an answer with a mismatch
\* in the overlap (decoded or raw), with at most OVERLAP values, with
\* another range start than requested, or with a numeric range end that
\* does not fit the chunk, fails the call, and process gets no list.
C16_OverlapChecked ==
  [][/\ rc_pc' = "requested" /\ rounds >= 1 =>
          /\ Len(initValues) > OVERLAP
          /\ offset' = Len(initValues) - OVERLAP
     /\ (rc_pc = "requested" /\ rc_pc' # "requested") =>
          ((\/ OverlapMismatch(response')
            \/ Len(response'.vals) <= OVERLAP
            \/ response'.rangeFrom # offset
            \/ /\ response'.rangeTo # Star
               /\ response'.rangeTo # offset + Len(response'.vals) - 1)
           => (rc_pc' = "failed" /\ data_values' = <<>> /\ data_rawValues' = <<>>))]_vars

\* The third round has failed on an answer that differs from the
\* accumulated list in one raw value of the overlap only.
C16_Witness ==
  /\ rc_pc = "failed"
  /\ rounds = 3
  /\ response.wellFormed
  /\ response.rangeFrom = offset
  /\ Len(response.vals) > OVERLAP
  /\ \A j \in 1..OVERLAP : Reverse(response.vals)[j] = initValues[Len(initValues) - OVERLAP + j]
  /\ \E j \in 1..OVERLAP :
       Reverse(response.rawvals)[j] # initRawValues[Len(initRawValues) - OVERLAP + j]
  /\ response.rangeTo = offset + Len(response.vals) - 1

----------------------------------------------------------------------------
(* The transitive-membership rewriter: properties *)

\* What the lookup is to return for attribute a from the starting set S0:
\* for memberOf, S0 and every group that is a member of some DN of S0,
\* directly or through a chain of groups; for member, S0 and every group
\* that contains some DN of S0, directly or through a chain.
Closure(a, S0) ==
  IF a = "memberOf"
  THEN S0 \cup {g \in Groups : \E s \in S0 : InChain(s, g)}
  ELSE S0 \cup {g \in Groups : \E s \in S0 : InChain(g, s)}

LookupReturned == clientSideTransitiveSearch /\ tl_pc \in {"rewritten", "done"}

\* C17, as stated: for every group graph, cycles included, and every
\* starting set S0 the lookup returns exactly S0 and the groups related to
\* S0 directly or through a chain (members for memberOf, containers for
\* member).
C17_LookupIsClosure_AnyBase ==
  LookupReturned => ret = Closure(tl_attribute, where.value)

\* C17, amended: the same when every group lies under the base DN of the
\* lookup's searches; and with any base DN every DN of S0 is in the result
\* and the result holds nothing outside the closure.
C17_LookupIsClosure ==
  LookupReturned =>
    /\ where.value \subseteq ret
    /\ ret \subseteq Closure(tl_attribute, where.value)
    /\ baseGroups = Groups => ret = Closure(tl_attribute, where.value)

\* A lookup over a graph with a cycle that took three searches and found
\* groups beyond the starting set.
C17_Witness ==
  /\ LookupReturned
  /\ baseGroups = Groups
  /\ \E g \in Groups : InChain(g, g)
  /\ Len(searches) >= 3
  /\ ret # where.value
  /\ ret = Closure(tl_attribute, where.value)

\* The groups search i of the lookup found that no earlier frontier held,
\* when its searches are on attribute a.
NewlyFound(i, a) ==
  {g \in baseGroups : Attr(g, a) \cap searches[i].values # {}}
    \ UNION {searches[j].values : j \in 1..i}

\* The frontiers of the searches issued so far, for searches on attribute
\* a: the first is the starting set, each later one the groups newly found
\* by the search before it, and the frontier at hand those of the last.
FrontiersFollow(a) ==
  /\ \A i \in 1..Len(searches) : searches[i].attribute = a
  /\ Len(searches) >= 1 => searches[1].values = where.value
  /\ \A i \in 1..(Len(searches) - 1) : searches[i + 1].values = NewlyFound(i, a)
  /\ tl_pc = "lookup" /\ Len(searches) >= 1 => toLookup = NewlyFound(Len(searches), a)

\* C18, as stated: expanding _transitive_memberOf, every search of the
\* lookup is for the groups whose member attribute holds a DN of the
\* frontier, and the newly found groups are the next frontier; expanding
\* _transitive_member it is memberOf.
C18_SearchedAttribute_AsStated ==
  clientSideTransitiveSearch =>
    /\ where.attrib = "_transitive_memberOf" => FrontiersFollow("member")
    /\ where.attrib = "_transitive_member" => FrontiersFollow("memberOf")

\* C18, amended: expanding _transitive_memberOf, every search of the lookup
\* is for the groups whose memberOf attribute holds a DN of the frontier,
\* and the newly found groups are the next frontier; expanding
\* _transitive_member it is member.
C18_SearchedAttribute ==
  clientSideTransitiveSearch =>
    /\ where.attrib = "_transitive_memberOf" => FrontiersFollow("memberOf")
    /\ where.attrib = "_transitive_member" => FrontiersFollow("member")

\* An expansion of _transitive_memberOf whose first search found groups and
\* whose second search, on them, found more.
C18_Witness ==
  /\ clientSideTransitiveSearch
  /\ where.attrib = "_transitive_memberOf"
  /\ Len(searches) >= 2
  /\ searches[2].attribute = "memberOf"
  /\ searches[2].values # {}
  /\ tl_pc = "lookup"
  /\ toLookup # {}

\* An iteration of the lookup's loop has run in this step.
Iterated == Len(searches') = Len(searches) + 1

\* C19: the lookup terminates for every finite directory, cycles included:
\* the accumulated set never shrinks, every iteration (each has a non-empty
\* frontier) strictly enlarges it, no DN is in the frontier of two
\* iterations, and the search that called the lookup comes to its end.
C19_LookupTerminates ==
  /\ [][/\ ret \subseteq ret'
        /\ Iterated => toLookup # {} /\ ret' # ret]_vars
  /\ [](\A i, j \in 1..Len(searches) :
          i # j => searches[i].values \cap searches[j].values = {})
  /\ <>(tl_pc = "done")

\* A lookup over a graph with a cycle through its starting DN has ended
\* after three iterations.
C19_Witness ==
  /\ clientSideTransitiveSearch
  /\ tl_pc = "done"
  /\ Len(searches) = 3
  /\ \E g \in where.value : InChain(g, g)

\* C20: when every group lies under the transitive-search base DN, a search
\* whose filter holds equals _transitive_member D or equals
\* _transitive_memberOf D yields with clientSideTransitiveSearch the
\* entries the in-chain evaluation of the same filter yields without it.
C20_SameAsInChain ==
  /\ tl_pc = "done"
  /\ baseGroups = Groups
  /\ where.op = "equals"
  => found = {x \in DNs : Matches(x, where)}

\* A search with clientSideTransitiveSearch has ended whose filter was
\* rewritten to a oneof on more DNs than D, over a graph with a cycle, and
\* that yielded some entries and not others.
C20_Witness ==
  /\ tl_pc = "done"
  /\ clientSideTransitiveSearch
  /\ baseGroups = Groups
  /\ where.op = "equals"
  /\ filterExpression.attrib \in {"member", "memberOf"}
  /\ filterExpression.value # where.value
  /\ \E g \in Groups : InChain(g, g)
  /\ found # {}
  /\ found # DNs

----------------------------------------------------------------------------
(* The subsearches on the connection: properties *)

\* C21: on the connection of one top-level search at most one subsearch is
\* in flight at any time, also when the filter has several virtual
\* attribute nodes under one and/or node.  Every group lookup counted in
\* lookups has issued a search on the connection and awaits it.
C21_OneSubsearchInFlight == lookups <= 1

----------------------------------------------------------------------------
(* getObjects, the select option: properties *)

\* C22: a getObjects call with the default waitForInitialization, after a
\* successful bootstrap, whose select list holds known attributes and a
\* pseudo-name, is not rejected and goes on to its search.
C22_PseudoNamesAccepted ==
  /\ waitForInitialization
  /\ initialized
  /\ ~select_all
  /\ Elements(selectList) \subseteq Names \cup VirtualAttributes
  /\ Elements(selectList) \cap VirtualAttributes # {}
  /\ sl_pc = "validated"
  /\ pr_pc # "called"
  => pr_pc = "streaming"

\* C23: the attribute list handed to the search is "*" when select is "*",
\* and else holds, once each, the elements of select and distinguishedName
\* other than the two pseudo-names; a yielded record has distinguishedName
\* only if the caller selected it.
C23_WireAttributes ==
  /\ sl_pc = "searching" =>
       IF select_all THEN attributes = AllAttributes
       ELSE /\ Elements(attributes) =
                 (Elements(selectList) \cup {"distinguishedName"}) \ VirtualAttributes
            /\ Len(attributes) = Cardinality(Elements(attributes))
  /\ pr_pc = "yielded" /\ "distinguishedName" \in DOMAIN pr_ret =>
       select_all \/ "distinguishedName" \in Elements(selectList)

\* A select list with a repeated name and a pseudo-name went to the search
\* as cn and distinguishedName, and the record yielded for an entry that
\* carried distinguishedName has no such key.
C23_Witness ==
  /\ sl_pc = "searching"
  /\ selectList = <<"cn", "_transitive_member", "cn">>
  /\ attributes = <<"cn", "distinguishedName">>
  /\ pr_pc = "yielded"
  /\ pr_entry["distinguishedName"] = 1
  /\ DOMAIN pr_ret = {"cn"}

----------------------------------------------------------------------------
(* getOneObject: properties *)

\* C24: getOneObject returns a record exactly when the stream yields one
\* record and then ends normally, and the record is that one; it fails on a
\* stream of no records, and on the second record, after which it takes no
\* more from the stream.
C24_ExactlyOne ==
  /\ oo_pc = "returned" =>
       Len(oo_stream) = 1 /\ oo_ending = "end" /\ oo_value = oo_stream[1]
  /\ oo_pc = "failed" => ~(Len(oo_stream) = 1 /\ oo_ending = "end")
  /\ oo_pc = "running" => oo_consumed <= 1 /\ ENABLED NextOne
  /\ oo_consumed <= 2
  /\ oo_consumed = 2 => oo_pc = "failed" /\ oo_closed
  /\ oo_closed => oo_consumed < Len(oo_stream) \/ Len(oo_stream) = 2

\* The call has failed on the second of four records and has closed the
\* iterator with two records left in the stream.
C24_Witness ==
  /\ oo_pc = "failed"
  /\ Len(oo_stream) = 4
  /\ oo_consumed = 2
  /\ oo_closed

----------------------------------------------------------------------------
(* ldapfilter: properties *)

Escaped == {"*", "(", ")", "\\", NUL}

\* The text that stands for character c in a value slot.
CodeOf(c) ==
  CASE c = "*" -> <<"\\", "2", "a">>
    [] c = "(" -> <<"\\", "2", "8">>
    [] c = ")" -> <<"\\", "2", "9">>
    [] c = "\\" -> <<"\\", "5", "c">>
    [] c = NUL -> <<"\\", "0", "0">>

\* e is v with each of the five characters replaced by its code and every
\* other character unchanged: character k of v stands in e after the
\* k - 1 characters before it, each three long when replaced.
IsEscapeOf(e, v) ==
  LET start(k) == k + 2 * Cardinality({j \in 1..(k - 1) : v[j] \in Escaped})
  IN /\ Len(e) = Len(v) + 2 * Cardinality({j \in 1..Len(v) : v[j] \in Escaped})
     /\ \A k \in 1..Len(v) :
          IF v[k] \in Escaped
          THEN SubSeq(e, start(k), start(k) + 2) = CodeOf(v[k])
          ELSE e[start(k)] = v[k]

\* Reading an escaped text back: a backslash and the two characters after
\* it give one of the five characters.
RECURSIVE Unescape(_)
Unescape(e) ==
  IF e = <<>> THEN <<>>
  ELSE IF e[1] = "\\" /\ Len(e) >= 3
  THEN <<CHOOSE c \in Escaped : CodeOf(c) = SubSeq(e, 1, 3)>> \o Unescape(SubSeq(e, 4, Len(e)))
  ELSE <<e[1]>> \o Unescape(Tail(e))

\* Every prefix of s has at least as many "(" as ")", and s as many.
Balanced(s) ==
  LET opened(k) == Cardinality({j \in 1..k : s[j] = "("})
      closed(k) == Cardinality({j \in 1..k : s[j] = ")"})
  IN /\ \A k \in 1..Len(s) : opened(k) >= closed(k)
     /\ opened(Len(s)) = closed(Len(s))

\* What equals, beginswith, endswith and contains put before and after the
\* value.
Before(op) == IF op \in {"endswith", "contains"} THEN <<"*">> ELSE <<>>
After(op) == IF op \in {"beginswith", "contains"} THEN <<"*">> ELSE <<>>

\* The value slot of the output of a comparison on attribute a.
ValueSlot(out, op, a) ==
  SubSeq(out, Len(a) + 3 + Len(Before(op)), Len(out) - 1 - Len(After(op)))

\* C25: the compiled filter of a valid expression has balanced parentheses;
\* the value of a comparison is emitted with *, (, ), backslash and NUL
\* replaced by \2a, \28, \29, \5c, \00 and every other character unchanged,
\* so the slot holds none of *, ( and ), and the value can be read back
\* from it: two values never give the same text.
C25_EscapedAndBalanced ==
  fl_pc = "returned" =>
    /\ Balanced(fl_out)
    /\ fl_expr[1] \in ComparisonOps =>
         LET op == fl_expr[1]
             a == fl_expr[2]
             v == fl_expr[3]
             slot == ValueSlot(fl_out, op, a)
         IN /\ fl_out = <<"(">> \o a \o <<"=">> \o Before(op) \o slot \o After(op) \o <<")">>
            /\ IsEscapeOf(slot, v)
            /\ \A k \in 1..Len(slot) : slot[k] \notin {"*", "(", ")", NUL}
            /\ Len(v) <= MaxValueLen => Unescape(slot) = v

\* The value (\* compiled under contains.
C25_Witness ==
  /\ fl_pc = "returned"
  /\ fl_expr = <<"contains", AttrCn, <<"(", "\\", "*">>>>
  /\ fl_out = <<"(", "c", "n", "=", "*", "\\", "2", "8", "\\", "5", "c", "\\", "2", "a", "*", ")">>

\* The result of the call.
Result == [ok |-> fl_pc = "returned", str |-> fl_out]
Called == fl_pc \in {"returned", "thrown"}

\* The text of value v in a filter.
EscapedText(v) ==
  Join([k \in 1..Len(v) |-> IF v[k] \in Escaped THEN CodeOf(v[k]) ELSE <<v[k]>>])

\* "(" a "=" v ")" for each value of vs, in order.
EqualsTexts(a, vs) ==
  Join([k \in 1..Len(vs) |-> <<"(">> \o a \o <<"=">> \o EscapedText(vs[k]) \o <<")">>])

MatchNothing ==
  <<"(", "!", "(">> \o ObjectClass \o <<"=", "*", ")", ")">>

\* C26: oneof over a valid attribute and n >= 1 values compiles as the or of
\* the equals expressions over the values, in order (one equals alone when
\* n = 1, "(|" and the n equalities and ")" otherwise), and is refused when
\* that or is; oneof over no value compiles as ["false"], which is
\* "(!(objectClass=*))".
C26_OneofIsOrOfEquals ==
  (Called /\ fl_expr[1] = "oneof" /\ Len(fl_expr) = 3) =>
    LET a == fl_expr[2]
        vs == fl_expr[3]
        alt == <<"or">> \o [k \in 1..Len(vs) |-> <<"equals", a, vs[k]>>]
    IN IF Len(vs) = 0
       THEN /\ Result = ldapfilter(<<"false">>, fl_b)
            /\ Result = Returned(MatchNothing)
       ELSE a \in ValidAttrs =>
              /\ Result = ldapfilter(alt, fl_b)
              /\ Result.ok =>
                   fl_out = IF Len(vs) = 1 THEN EqualsTexts(a, vs)
                            ELSE <<"(", "|">> \o EqualsTexts(a, vs) \o <<")">>

\* oneof over TRUE and * on cn.
C26_Witness ==
  /\ fl_pc = "returned"
  /\ fl_expr = <<"oneof", AttrCn, <<StrTRUE, <<"*">>>>>>
  /\ fl_out = <<"(", "|", "(", "c", "n", "=", "T", "R", "U", "E", ")",
                "(", "c", "n", "=", "\\", "2", "a", ")", ")">>

\* The length of the first n texts of q together.
RECURSIVE LenOfFirst(_, _)
LenOfFirst(q, n) == IF n = 0 THEN 0 ELSE LenOfFirst(q, n - 1) + Len(q[n])

\* C27: and, and or, over one operand compile as the operand does, and are
\* refused when it is; over two or more operands they are accepted exactly
\* when every operand is, and emit "(&", resp. "(|", then the compilation of
\* each operand, in order, then ")".
C27_AndOrOperands ==
  (Called /\ fl_expr[1] \in {"and", "or"} /\ Len(fl_expr) >= 2) =>
    LET n == Len(fl_expr) - 1
        c == [k \in 1..n |-> ldapfilter(fl_expr[k + 1], fl_b)]
        text == [k \in 1..n |-> c[k].str]
    IN IF n = 1
       THEN /\ Result = c[1]
            /\ ldapfilter(<<"and", fl_expr[2]>>, fl_b) = c[1]
            /\ ldapfilter(<<"or", fl_expr[2]>>, fl_b) = c[1]
       ELSE /\ Result.ok <=> \A k \in 1..n : c[k].ok
            /\ Result.ok =>
                 /\ Len(fl_out) = LenOfFirst(text, n) + 3
                 /\ SubSeq(fl_out, 1, 2) = <<"(", IF fl_expr[1] = "and" THEN "&" ELSE "|">>
                 /\ \A k \in 1..n :
                      SubSeq(fl_out, LenOfFirst(text, k - 1) + 3, LenOfFirst(text, k) + 2) = text[k]
                 /\ fl_out[Len(fl_out)] = ")"

\* and over two different operands.
C27_Witness ==
  /\ fl_pc = "returned"
  /\ fl_expr = <<"and", <<"equals", AttrCn, <<"(", "*">>>>, <<"equals", AttrBool, StrTRUE>>>>
  /\ fl_out = <<"(", "&", "(", "c", "n", "=", "\\", "2", "8", "\\", "2", "a", ")",
                "(", "o", "k", "=", "T", "R", "U", "E", ")", ")">>

RECURSIVE BooleanMisuse(_, _)
BooleanMisuse(e, b) ==
  IF Len(e) = 0 THEN FALSE
  ELSE CASE e[1] \in {"and", "or", "not"} ->
              \E k \in 2..Len(e) : BooleanMisuse(e[k], b)
         [] e[1] = "equals" ->
              Len(e) = 3 /\ e[2] \in b /\ e[3] \notin {StrTRUE, StrFALSE}
         [] e[1] \in {"beginswith", "endswith", "contains"} ->
              Len(e) = 3 /\ e[2] \in b
         [] e[1] = "oneof" ->
              /\ Len(e) = 3
              /\ e[2] \in b
              /\ \E k \in 1..Len(e[3]) : e[3][k] \notin {StrTRUE, StrFALSE}
         [] OTHER -> FALSE

\* C29: an expression that compares a boolean attribute, at any depth, with
\* a value other than TRUE and FALSE (by equals or as an element of oneof),
\* or by beginswith, endswith or contains, is refused; an expression without
\* such a node compiles as it does when no attribute is boolean.
C29_BooleanAttributes ==
  Called =>
    IF BooleanMisuse(fl_expr, fl_b)
    THEN fl_pc = "thrown"
    ELSE Result = ldapfilter(fl_expr, {})

\* beginswith on the boolean attribute, two levels down.
C29_Witness ==
  /\ fl_pc = "thrown"
  /\ fl_b = {AttrBool}
  /\ fl_expr = <<"not", <<"and", <<"equals", AttrBool, StrTRUE>>,
                                <<"beginswith", AttrBool, StrTRUE>>>>>>
  /\ ldapfilter(fl_expr, {}).ok

\* The attribute slot of a node with one: the operand after the operator.
HasAttributeSlot(e) ==
  \/ e[1] \in ComparisonOps \cup {"oneof"} /\ Len(e) = 3
  \/ e[1] = "has" /\ Len(e) = 2

\* Some node of e, at any depth under and, or and not, has an attribute slot
\* that is no string or does not match the regex.
RECURSIVE InvalidSlot(_)
InvalidSlot(e) ==
  IF Len(e) = 0 THEN FALSE
  ELSE IF e[1] \in {"and", "or", "not"} THEN \E k \in 2..Len(e) : InvalidSlot(e[k])
  ELSE HasAttributeSlot(e) /\ ~(IsString(e[2]) /\ AttributeNameRE(e[2]))

\* C30: an expression with an invalid attribute slot, anywhere in the tree,
\* under any operator that has one, and under oneof whatever its value
\* list, is refused.
C30_InvalidAttributeRefused ==
  (Called /\ InvalidSlot(fl_expr)) => fl_pc = "thrown"

----------------------------------------------------------------------------
(* ldapfilter with the virtual attributes: properties *)

Virtual == {TransitiveMember, TransitiveMemberOf}

\* "(member:1.2.840.113556.1.4.1941:=" v ")", with memberOf for
\* _transitive_memberOf, for each value of vs in order.
InChainTexts(a, vs) ==
  Join([k \in 1..Len(vs) |->
          <<"(">> \o (IF a = TransitiveMember THEN <<"m", "e", "m", "b", "e", "r">>
                      ELSE <<"m", "e", "m", "b", "e", "r", "O", "f">>)
          \o <<":", "1", ".", "2", ".", "8", "4", "0", ".", "1", "1", "3", "5", "5", "6", ".", "1", ".", "4", ".", "1", "9", "4", "1", ":">>
          \o <<"=">> \o EscapedText(vs[k]) \o <<")">>])

----------------------------------------------------------------------------
(* getObjects with an invalid where expression: properties *)

\* C32: with clientSideTransitiveSearch and a where expression the compiler
\* refuses, the call starts no group lookup (those in flight are left from
\* an earlier search of the caller on its own connection), never reaches
\* the main search, yields nothing, and when it has finished the connection
\* it opened has been ended.
C32_InvalidWhereSendsNothing ==
  /\ [](clientSideTransitiveSearch /\ ~where_valid =>
          /\ go_pc \in {"idle", "binding", "filter", "finally", "finished"}
          /\ nYielded = 0
          /\ ~connection_is_external => lookups = 0
          /\ (go_pc = "finished" /\ bound /\ ~connection_is_external) =>
               client = "unbound" /\ endCalls = 1)
  /\ [][clientSideTransitiveSearch /\ ~where_valid => lookups' <= lookups]_vars

\* The call bound a connection, was refused at the rewrite and has ended it.
C32_Witness ==
  /\ clientSideTransitiveSearch
  /\ ~where_valid
  /\ go_pc = "finished"
  /\ bound
  /\ completion = "throw"
  /\ client = "unbound"
  /\ endCalls = 1

----------------------------------------------------------------------------
(* The rewriter on a whole expression: properties *)

\* out is e with each equals and oneof on a virtual attribute replaced by a
\* oneof on member, resp. memberOf, over DNs, and nothing else changed.
RECURSIVE StructuralMap(_, _)
StructuralMap(e, out) ==
  IF e[1] \in {"and", "or", "not"}
  THEN /\ out[1] = e[1]
       /\ Len(out) = Len(e)
       /\ \A k \in 2..Len(e) : StructuralMap(e[k], out[k])
  ELSE IF e[1] \in {"equals", "oneof"} /\ e[2] \in {"_transitive_member", "_transitive_memberOf"}
  THEN /\ Len(out) = 3
       /\ out[1] = "oneof"
       /\ out[2] = (IF e[2] = "_transitive_member" THEN "member" ELSE "memberOf")
       /\ out[3] \subseteq DNs
  ELSE out = e

\* An equals or oneof node of e names a virtual attribute.
RECURSIVE VirtualRemains(_)
VirtualRemains(e) ==
  IF e[1] \in {"and", "or", "not"} THEN \E k \in 2..Len(e) : VirtualRemains(e[k])
  ELSE e[1] \in {"equals", "oneof"} /\ e[2] \in {"_transitive_member", "_transitive_memberOf"}

\* C33: the rewritten expression has the and, or and not nodes of the
\* input with the same number of operands in the same order; a leaf that
\* is no equals or oneof on a virtual attribute is unchanged; an equals or
\* oneof on _transitive_member, resp. _transitive_memberOf, has become a
\* oneof on member, resp. memberOf; no equals or oneof of the result names
\* a virtual attribute.
C33_StructuralMap ==
  tl_pc = "rewritten" =>
    /\ StructuralMap(where, filterExpression)
    /\ ~VirtualRemains(filterExpression)

\* Two levels, three operands, virtual and real leaves, a chain of groups.
C33_Witness ==
  /\ tl_pc = "rewritten"
  /\ member = [g \in Groups |-> IF g = "g1" THEN {"g2"} ELSE IF g = "g2" THEN {"g3"} ELSE {}]
  /\ where = <<"and", <<"equals", "_transitive_memberOf", "g1">>,
                      <<"or", <<"equals", "cn", "u1">>, <<"oneof", "_transitive_member", {"u1", "g2"}>>>>,
                      <<"has", "cn">>>>
  /\ filterExpression = <<"and", <<"oneof", "memberOf", {"g1", "g2", "g3"}>>,
                                 <<"or", <<"equals", "cn", "u1">>, <<"oneof", "member", {"u1", "g2", "g1"}>>>>,
                                 <<"has", "cn">>>>

----------------------------------------------------------------------------
(* Bootstrap, rows of attributes already in the schema map: properties *)

\* The row attempt k reads next.
NextRow(k) == schema[attempts[k].pos + 1]

----------------------------------------------------------------------------
(* completeValueRange, progress: properties *)

\* C35: from one round to the next the requested offset grows and the
\* accumulated list grows, keeping what it held; with a server that answers
\* with the values it holds the call ends after at most as many rounds as
\* there are values, and it ends on the chunk whose upper bound is * unless
\* the server sent a chunk of no more than OVERLAP values.
C35_RangeProgress ==
  /\ [][(rc_pc = "next" /\ rc_pc' = "requested") => offset' > offset]_vars
  /\ [][initValues' # initValues =>
          /\ Len(initValues') > Len(initValues)
          /\ SubSeq(initValues', 1, Len(initValues)) = initValues]_vars
  /\ [](rounds <= Max(1, rc_N))
  /\ [](rc_pc = "failed" => Len(response.vals) <= OVERLAP)
  /\ [](rc_pc = "done" => response.rangeTo = Star)
  /\ <>(rc_pc \in {"done", "failed"})

\* The chunk with upper bound * came in the third round.
C35_Witness ==
  /\ rc_pc = "done"
  /\ rounds = 3
  /\ offset >= 2
  /\ Len(initValues) > OVERLAP

----------------------------------------------------------------------------
(* rawSearch, errors at the yield point: properties *)

\* The generator has thrown on dequeuing an error event, a referral or an
\* end event with a failing result.
Raised == pc = "failed" /\ lastDeq.op \in {"err", "referral", "done"}

\* The stream is over for the consumer.
Over == pc \in {"failed", "done", "returned"}

\* C36: when an error event, a referral or a failing end result is raised,
\* every event emitted before it has been dequeued, so the entries yielded
\* are exactly the entries emitted before it and the queue holds only later
\* events; and once the stream is over, by a throw, the normal end or the
\* consumer's return, the events that still arrive change nothing the
\* consumer sees: no entry is yielded and the generator stays where it is.
C36_RaisedInOrder ==
  /\ [](Raised =>
          /\ \A i \in 1..Len(buffer) : buffer[i].seq > lastDeq.seq
          /\ yielded \o EntriesOf(buffer) = [i \in 1..nEntries |-> i]
          /\ lastDeq.op = "done" => lastDeq.status # 0 \/ lastDeq.errorMessage # "")
  /\ [][Over => pc' = pc /\ yielded' = yielded /\ lastDeq' = lastDeq]_vars

\* An error was raised after two entries emitted before it were yielded,
\* and an entry emitted after it stays in the queue.
C36_Witness ==
  /\ Raised
  /\ lastDeq.op = "err"
  /\ Len(yielded) >= 2
  /\ Len(EntriesOf(buffer)) >= 1

----------------------------------------------------------------------------
(* Bootstrap, a new attempt after a failed one: properties *)

\* The row test of initialize on the row attempt k reads next.
RowPasses(k) ==
  LET name == NextRow(k).lDAPDisplayName
      isv == NextRow(k).isSingleValued
  IN \/ dictSingleValued[name] = "none"
     \/ name \in attributesNeededForInitialization /\ isv = "single"
     \/ name \notin attributesNeededForInitialization /\ dictSingleValued[name] # isv

\* C37: what a failed attempt has written does not make a later attempt
\* fail: an attempt that runs alone, the earlier ones settled, passes the
\* row test on the row it reads next.
C37_LaterAttemptNotBlocked ==
  \A k \in Pending :
    (attempts[k].pos < Len(schema) /\ \A j \in 1..Len(attempts) : j # k => attempts[j].state # "pending")
      => RowPasses(k)

----------------------------------------------------------------------------
(* getObjects during a bootstrap attempt in flight: properties *)

\* The attempts in flight that started less than initialize_throttle_delay
\* before now.
InWindow == {k \in Pending : now - attempts[k].started < initialize_throttle_delay}

\* The getObjects calls waiting for a bootstrap attempt.
Waiting == {c \in 1..MaxCalls : callers[c].kind = "getObjects" /\ callers[c].pc = "awaiting"}

\* C38: a getObjects call that finds initialized false while a bootstrap
\* attempt started less than initialize_throttle_delay earlier is in flight
\* starts no attempt of its own and waits for that attempt; while the attempt
\* is in flight the call neither goes on to its search nor fails; once the
\* attempt has settled the call goes on to its search if the attempt
\* succeeded and fails if the attempt failed.
C38_WaitsForAttemptInFlight ==
  [][\A c \in 1..MaxCalls :
       /\ ( /\ callers[c].pc = "idle" /\ callers'[c].kind = "getObjects"
            /\ callers'[c].pc # "idle" /\ ~initialized /\ InWindow # {} )
           => /\ attempts' = attempts
              /\ callers'[c].pc = "awaiting"
              /\ callers'[c].awaits \in InWindow
       /\ (c \in Waiting /\ callers[c].awaits \in Pending) => callers'[c] = callers[c]
       /\ (c \in Waiting /\ callers[c].awaits # 0 /\ callers'[c] # callers[c])
           => \/ /\ attempts[callers[c].awaits].state = "resolved"
                 /\ callers'[c].pc = "searching"
              \/ /\ attempts[callers[c].awaits].state = "rejected"
                 /\ callers'[c].pc = "failed"
    ]_vars

\* Two calls have waited for the one attempt started, so one of them was
\* made while it was in flight; the attempt has succeeded and both calls
\* have gone on to their search.
C38_Witness ==
  /\ Len(attempts) = 1
  /\ attempts[1].state = "resolved"
  /\ \A c \in 1..MaxCalls :
       /\ callers[c].kind = "getObjects"
       /\ callers[c].awaits = 1
       /\ callers[c].pc = "searching"

----------------------------------------------------------------------------
(* rawSearch, progress: properties *)

\* The stream has ended: the generator has returned or thrown.
Ended == pc \in {"done", "failed"}

\* C39: a resume callback is withheld only while should_pause is set; in no
\* state is the queue empty, the generator waiting for the next event and a
\* resume callback withheld; and against a paged transport that answers
\* every resume and ends, with a consumer that asks for every entry, every
\* withheld callback is invoked and the stream ends.
C39_NoDeadlock ==
  /\ [](resume_callback # 0 => should_pause)
  /\ [](~(buffer = <<>> /\ pc = "waiting" /\ resume_callback # 0))
  /\ \A seq \in 1..MaxEvents : (seq \in withheld) ~> (seq \in cbInvoked)
  /\ <>Ended

\* A resume callback was withheld and invoked later, and the stream has
\* ended with all its entries yielded.
C39_Witness ==
  /\ transport = "paged"
  /\ withheld # {}
  /\ withheld \subseteq cbInvoked
  /\ pc = "done"
  /\ buffer = <<>>
  /\ Len(yielded) = nEntries

====
